---- MODULE Spec2Model ----
(***************************************************************************)
(* Cloud storage abstraction layer of comfyui-save-file-extended: the      *)
(* backend registry (cloud/__init__.py), the batch transfer loops of the   *)
(* eleven adapters (cloud/*.py) and the save/load nodes' call into them.   *)
(*                                                                         *)
(* A payload is modelled by its length in bytes; a chunk is the byte range *)
(* [offset, offset + len) of the payload of the item it belongs to.        *)
(***************************************************************************)
EXTENDS Integers, Sequences, FiniteSets, TLC

\* ------------------------------------------------------------------ bounds
\* Longest batch handed to upload_many / download_many.
MaxItems == 3
\* Largest payload (bytes) handed to an adapter whose byte callbacks are
\* driven by a library (boto3 upload_fileobj, ftplib storbinary/retrbinary).
MaxLibSize == 2
MaxUploads == 2
\* Deepest nesting of dicts, lists and tuples in a logged argument.
MaxDepth == 2

MiB == 1024 * 1024

Min(a, b) == IF a < b THEN a ELSE b

\* ---------------------------------------------------------------- registry
\* The adapter modules under cloud/.
Modules ==
    {"s3", "s3_compatible", "gcs", "azure_blob", "b2", "dropbox_client",
     "gdrive", "onedrive", "ftp_client", "supabase_storage", "upload_thing"}

\* The provider-name -> module table of get_uploader.
providers ==
    ("AWS S3" :> "s3") @@ ("S3-Compatible" :> "s3_compatible") @@
    ("Google Cloud Storage" :> "gcs") @@ ("Azure Blob Storage" :> "azure_blob") @@
    ("Backblaze B2" :> "b2") @@ ("Dropbox" :> "dropbox_client") @@
    ("Google Drive" :> "gdrive") @@ ("OneDrive" :> "onedrive") @@
    ("FTP" :> "ftp_client") @@ ("Supabase Storage" :> "supabase_storage")

\* get_uploader: providers.get(provider_name); "none" stands for the
\* ValueError raised when the name has no entry.
get_uploader(provider_name) ==
    IF provider_name \in DOMAIN providers THEN providers[provider_name] ELSE "none"

\* The cloud_provider choices the nodes offer (INPUT_TYPES).
cloud_provider_choices ==
    {"AWS S3", "Google Cloud Storage", "Azure Blob Storage", "Backblaze B2",
     "Google Drive", "Dropbox", "OneDrive", "FTP", "Supabase Storage",
     "UploadThing", "S3-Compatible"}

\* Strings that name no provider.
OtherNames == {"", "Box"}

\* ---------------------------------------------------- adapter parameters
\* upload_many / download_many of s3.py and b2.py take four parameters;
\* every other adapter also takes progress_callback and byte_callback.
AcceptsCallbacks(m) == m \notin {"s3", "b2"}

\* Adapters whose upload_many compares len(body) with a threshold.
ThresholdModules == {"dropbox_client", "onedrive", "gdrive", "azure_blob"}

\* The number len(body) is compared with.
Threshold(m) ==
    CASE m = "dropbox_client" -> 4 * MiB
      [] m = "onedrive"       -> 4 * MiB
      [] m = "gdrive"         -> 5 * MiB
      [] m = "azure_blob"     -> 8 * MiB
      [] OTHER                -> 0

\* CHUNK / chunk_size of the upload loops (the read size of the gcs loop).
CHUNK(m) ==
    CASE m = "dropbox_client" -> 4 * MiB
      [] m = "onedrive"       -> 8 * MiB
      [] m = "gdrive"         -> 8 * MiB
      [] m = "azure_blob"     -> 8 * MiB
      [] m = "gcs"            -> 8 * MiB
      [] OTHER                -> 0

\* The branch upload_many takes for one item:
\*   "chunked"  the session / resumable / staged-block branch,
\*   "stream"   gcs: blob.open("wb") written in CHUNK pieces,
\*   "library"  s3_compatible upload_fileobj / ftp storbinary with _cb,
\*   "single"   one put / upload / multipart request.
TransferPathGE(m, size, bcb) ==
    IF m \in ThresholdModules
    THEN (IF bcb /\ size >= Threshold(m) THEN "chunked" ELSE "single")
    ELSE IF m = "gcs" /\ bcb THEN "stream"
    ELSE IF m \in {"s3_compatible", "ftp_client"} /\ bcb THEN "library"
    ELSE "single"

TransferPath(m, size, bcb) ==
    IF m \in ThresholdModules
    THEN (IF bcb /\ size > Threshold(m) THEN "chunked" ELSE "single")
    ELSE IF m = "gcs" /\ bcb THEN "stream"
    ELSE IF m \in {"s3_compatible", "ftp_client"} /\ bcb THEN "library"
    ELSE "single"

\* len(body[sent:sent+CHUNK]).
ChunkLenNoClip(m, size, pos) == CHUNK(m)

ChunkLen(m, size, pos) == Min(CHUNK(m), size - pos)

\* Payload sizes tried per adapter: around the threshold, and long enough
\* for several chunks.
ItemSizes(m) ==
    IF m \in ThresholdModules
    THEN {Threshold(m) - 1, Threshold(m), Threshold(m) + 1,
          2 * CHUNK(m), 2 * CHUNK(m) + 1}
    ELSE IF m = "gcs" THEN {0, CHUNK(m), CHUNK(m) + 1}
    ELSE 0 .. MaxLibSize

\* item["filename"] of the item at a position of the batch.
FilenameAt(i) == <<"a.png", "b.png", "c.png", "d.png", "e.png">>[i + 1]

Batches(m) == UNION {[1 .. n -> ItemSizes(m)] : n \in 0 .. MaxItems}

Ops == {"upload_many", "download_many"}

\* ------------------------------------------------------------------- state
VARIABLES
    caller,             \* "none" | "direct" | "node": who calls the adapter
    provider,           \* cloud_provider given to get_uploader by a node
    module,             \* the adapter module in use ("none" before lookup)
    op,                 \* "upload_many" | "download_many"
    items,              \* the batch: items[i] is len(content) of item i-1
    progress_callback,  \* TRUE iff the call passes progress_callback
    byte_callback,      \* TRUE iff the call passes byte_callback
    attempt,            \* 1, or 2 after the node's except TypeError
    pc,                 \* position in the call
    exc,                \* class of the exception that ended the call
    idx,                \* enumerate(items) index
    sent,               \* bytes of the current item sent so far
    delta,              \* "delta" of the pending byte callback
    cursor_offset,      \* dropbox UploadSessionCursor.offset
    results,            \* the list the call builds
    presigned,          \* upload_thing: the presign response, per position
    events,             \* history of the call: backend requests and callback invocations
    stored,             \* positions whose object the call has completed on the backend
    failedAt,           \* position of the first failed backend request, or -1
    cbFailed,           \* TRUE once a caller's callback has raised
    nodePhase,          \* status the node ends the cloud phase with
    cloud_results,      \* the node's cloud_results
    first_attempt,      \* events and stored of the call the node's except TypeError ended
    adapter,            \* single-object calls: the adapter module used
    files,              \* single-object calls: the backend's files, oldest first
    n_uploads,          \* single-object calls: upload() calls made
    last_upload,        \* arguments and returned "path" of the last upload()
    download_key,       \* key_or_filename of the last download()
    downloaded,         \* bytes the last download() returned
    fresh,              \* TRUE iff the last download() directly followed an upload()
    rtPc,               \* "idle" | "uploaded" | "downloaded" | "raised"
    func,               \* log_exceptions: the wrapped function called
    secret,             \* log_exceptions: the secret the call's arguments carry
    args,               \* log_exceptions: *args of the call
    kwargs,             \* log_exceptions: **kwargs of the call
    printed,            \* log_exceptions: the "[ERROR] ..." lines printed
    logPc,              \* "idle" | "call" | "returned" | "raised"
    service,            \* credentials: adapter of the last call ("none" before)
    api_key,            \* credentials: the credential of the last call
    env,                \* credentials: what file system and token endpoint did in it
    token_cache,        \* dropbox_tokens.json: [exists, valid, data]
    cache_before,       \* dropbox_tokens.json as the last call found it
    token_requests,     \* grant types the last call sent to the token endpoint
    resolved,           \* what the last call's credential resolution ended with
    backend,            \* addressing: the adapter module called ("none" before)
    bucket_link,        \* addressing: the destination locator [scheme, text]
    cloud_folder_path,  \* addressing: the folder path
    object_name,        \* addressing: the filename
    operation,          \* addressing: the operation of the last call
    addresses,          \* what each call so far resolved or raised, in order
    drive,              \* Google Drive / OneDrive: the items on the backend
    ftp_server,         \* FTP: [login_dir, root_allowed, dirs, files]
    conn_trace,         \* connections, clients and commands of the last call
    uploader,           \* folders: the adapter module of the call ("none" before)
    method,             \* folders: "upload" | "upload_many" | "download" | "download_many"
    depth,              \* folders: segments of the folder path (containers: 1)
    present,            \* folders: how many leading segments exist on the backend
    seg,                \* folders: the segment the walk is at, from 1
    batch_size,         \* folders: items of the call
    sent_items,         \* folders: items transferred so far
    sock,               \* FTP.sock: "none" | "open" | "closed"
    commands,           \* folders: backend commands of the call, <<command, outcome>>
    raising,            \* folders: the command whose error is propagating, or ""
    step,               \* folders: position in the call
    requester,          \* HTTP: the adapter module of the call
    api_method,         \* HTTP: the operation called
    plan,               \* HTTP: the request sites the call has still to pass
    in_flight,          \* HTTP: the site whose request awaits its answer, or ""
    http_log,           \* HTTP: the requests sent, [site, timeout]
    call_state,         \* HTTP: "idle" | "running" | "waiting" | "returned" | "raised" | "blocked"
    running_loop,       \* _run_async: TRUE iff the caller's thread runs an event loop
    coro,               \* _run_async: the coroutine, [awaits, ends, result]
    coro_pos,           \* _run_async: awaits of the coroutine passed so far
    ran_on,             \* _run_async: the event loops that ran a step of it
    result,             \* _run_async: the dict "result" of the thread mode
    caller_pc,          \* _run_async: position of the calling thread
    thread_pc,          \* _run_async: position of the thread t
    returned_value,     \* _run_async: what the call returned
    ut_files,           \* upload_thing: number of items of the call
    ut_status,          \* upload_thing: status of the last presign answer, 0 before
    ut_presigned,       \* upload_thing: "presigned", the list _ut_presign returned
    ut_idx,             \* upload_thing: enumerate(items) index
    ut_requests,        \* upload_thing: the requests sent, in order
    ut_pc,              \* upload_thing: position in upload_many
    sb_method,          \* supabase: the operation called
    role,               \* supabase: _jwt_role of the key ("None" when it has none)
    sb_items,           \* supabase: number of items of the call
    sb_idx,             \* supabase: enumerate(items) index
    sb_answers,         \* supabase: the backend's answers to the requests sent
    sb_raised,          \* supabase: the exception the call raised, or NoError
    sb_pc,              \* supabase: position in the call
    platform,           \* filenames: "posix" | "nt", the os.path in use
    raw_filename,       \* filenames: the node's `filename` input
    custom_filename,    \* filenames: the node's `custom_filename` input
    save_node,          \* filenames: "image" | "audio" | "video" ("none" before)
    batch_total,        \* filenames: number of outputs of the invocation
    sanitized_filename, \* filenames: sanitize_filename(filename), [none, name]
    filenames,          \* filenames: the list "filenames" the node returns
    names_pc,            \* filenames: "idle" | "input" | "sanitized" | "saved"
    sn_node,            \* save node: "image" | "audio" | "webm" | "video" | "workflow" ("none" before)
    save_to_cloud,      \* save node: the input save_to_cloud
    save_to_local,      \* save node: the input save_to_local
    sn_total,           \* save node: outputs of the invocation
    sn_idx,             \* save node: outputs handled so far
    ui_results,         \* save node: len(results), the files listed for the UI
    written,            \* save node: files written to the local folder
    cloud_items,        \* save node: len(cloud_items)
    upload_outcome,     \* save node: "none" | "ok" | "failed", how the cloud try block ended
    returned_cloud,     \* save node: len(cloud_results)
    status_events,      \* save node: the status events sent, in order
    out_file,           \* video nodes: the file at out_path, "absent" | "present" | "left"
    sn_pc,                \* save node: position in the method
    shared_cache,       \* concurrent writers: dropbox_tokens.json, [valid, apps]
    writer_pc,          \* concurrent writers: position of each _write_cached_tokens call
    writer_data,          \* concurrent writers: the dict "data" of each call
    retr_op,            \* "download" or "download_many" of ftp_client
    retr_byte_cb,       \* whether download_many was given a byte_callback
    remote_files,       \* per RETR candidate: length of the file there, -1 for none
    candidate,          \* position in candidates of the RETR under way
    received,           \* blocks the RETR under way has handed to the callback
    bio,                \* the BytesIO the callback writes to
    retr_sent,          \* sent["n"] of download_many's _cb
    retr_events,        \* the byte_callback calls of _cb
    retrieved,          \* the candidate whose RETR returned, 0 for none
    retr_pc              \* "idle", "retr", "returned", "raised"

callVars == <<caller, provider, module, op, items, progress_callback, byte_callback, attempt>>
loopVars == <<idx, sent, delta, cursor_offset, results, presigned>>
histVars == <<events, stored, failedAt, cbFailed>>
nodeVars == <<nodePhase, cloud_results, first_attempt>>
batchVars == <<callVars, loopVars, histVars, nodeVars, pc, exc>>
rtVars == <<adapter, files, n_uploads, last_upload, download_key, downloaded, fresh, rtPc>>
logVars == <<func, secret, args, kwargs, printed, logPc>>
credVars == <<service, api_key, env, token_cache, cache_before, token_requests, resolved>>
addrVars == <<backend, bucket_link, cloud_folder_path, object_name, operation, addresses, drive, ftp_server, conn_trace>>
sessVars == <<uploader, method, depth, present, seg, batch_size, sent_items, sock, commands, raising, step>>
earlierVars == <<batchVars, rtVars, logVars, credVars, addrVars>>
httpVars == <<requester, api_method, plan, in_flight, http_log, call_state>>
asyncVars == <<running_loop, coro, coro_pos, ran_on, result, caller_pc, thread_pc, returned_value>>
utVars == <<ut_files, ut_status, ut_presigned, ut_idx, ut_requests, ut_pc>>
sbVars == <<sb_method, role, sb_items, sb_idx, sb_answers, sb_raised, sb_pc>>
nameVars == <<platform, raw_filename, custom_filename, save_node, batch_total, sanitized_filename, filenames, names_pc>>
statVars == <<sn_node, save_to_cloud, save_to_local, sn_total, sn_idx, ui_results, written, cloud_items, upload_outcome, returned_cloud, status_events, out_file, sn_pc>>
cacheVars == <<shared_cache, writer_pc, writer_data>>
retrVars == <<retr_op, retr_byte_cb, remote_files, candidate, received, bio, retr_sent, retr_events, retrieved, retr_pc>>
laterVars == <<sessVars, httpVars, asyncVars, utVars, sbVars, nameVars, statVars, cacheVars, retrVars>>
vars == <<earlierVars, laterVars>>

\* What the steps of one part of the program leave alone.
outsideBatch == <<rtVars, logVars, credVars, addrVars, laterVars>>
outsideRoundTrip == <<batchVars, logVars, credVars, addrVars, laterVars>>
outsideLog == <<batchVars, rtVars, credVars, addrVars, laterVars>>
outsideCred == <<batchVars, rtVars, logVars, addrVars, laterVars>>
outsideAddr == <<batchVars, rtVars, logVars, credVars, laterVars>>
outsideSess == <<earlierVars, httpVars, asyncVars, utVars, sbVars, nameVars, statVars, cacheVars, retrVars>>
outsideHttp == <<earlierVars, sessVars, asyncVars, utVars, sbVars, nameVars, statVars, cacheVars, retrVars>>
outsideAsync == <<earlierVars, sessVars, httpVars, utVars, sbVars, nameVars, statVars, cacheVars, retrVars>>
outsideUt == <<earlierVars, sessVars, httpVars, asyncVars, sbVars, nameVars, statVars, cacheVars, retrVars>>
outsideSb == <<earlierVars, sessVars, httpVars, asyncVars, utVars, nameVars, statVars, cacheVars, retrVars>>
outsideNames == <<earlierVars, sessVars, httpVars, asyncVars, utVars, sbVars, statVars, cacheVars, retrVars>>
outsideStat == <<earlierVars, sessVars, httpVars, asyncVars, utVars, sbVars, nameVars, cacheVars, retrVars>>
outsideCache == <<earlierVars, sessVars, httpVars, asyncVars, utVars, sbVars, nameVars, statVars, retrVars>>
outsideRetr == <<earlierVars, sessVars, httpVars, asyncVars, utVars, sbVars, nameVars, statVars, cacheVars>>

\* One entry of the history.  For a backend request, offset/len are the byte
\* range of the payload it carries and snt the offset the request states
\* (dropbox cursor.offset, the start of Content-Range); for a callback, len is
\* the reported delta and snt the reported sent.
Ev(kind, i, offset, len, snt, total) ==
    [kind |-> kind, index |-> i, offset |-> offset, len |-> len, sent |-> snt, total |-> total]

Size == items[idx + 1]

BatchInit ==
    /\ caller = "none" /\ provider = "" /\ module = "none" /\ op = "none"
    /\ items = <<>> /\ progress_callback = FALSE /\ byte_callback = FALSE
    /\ attempt = 1 /\ pc = "idle" /\ exc = "none"
    /\ idx = 0 /\ sent = 0 /\ delta = 0 /\ cursor_offset = 0
    /\ results = <<>> /\ presigned = <<>>
    /\ events = <<>> /\ stored = {} /\ failedAt = -1 /\ cbFailed = FALSE
    /\ nodePhase = "none" /\ cloud_results = <<>>
    /\ first_attempt = [events |-> <<>>, stored |-> {}]

NoUpload == [filename |-> "", content |-> "", path |-> ""]

RoundTripInit ==
    /\ files = <<>> /\ n_uploads = 0 /\ last_upload = NoUpload
    /\ download_key = "" /\ downloaded = "" /\ fresh = FALSE /\ rtPc = "idle"

RoundTripIdle == adapter = "none" /\ RoundTripInit

LogIdle ==
    /\ func = "none" /\ secret = <<>> /\ args = <<>> /\ kwargs = <<>>
    /\ printed = <<>> /\ logPc = "idle"

\* Credential resolution before any call: no cache file, nothing resolved.
\* A field that is absent, None or empty is "" (a str field: <<>>).
Absent == ""
NoStr == <<>>
NoCredential ==
    [json |-> FALSE, raw |-> Absent, app_key |-> NoStr, app_secret |-> NoStr,
     refresh_token |-> Absent, access_token |-> Absent, authorization_code |-> Absent]
NoData == [k \in {} |-> Absent]
NoFile == [exists |-> FALSE, valid |-> FALSE, data |-> NoData]
NoEntry == [app_key |-> NoStr, refresh_token |-> Absent, access_token |-> Absent]
Unresolved ==
    [status |-> "none", error |-> "", access_token |-> Absent, refresh_token |-> Absent]

CredIdle ==
    /\ service = "none" /\ api_key = NoCredential
    /\ env = [fs |-> "ok", code |-> "none", refresh |-> "none"]
    /\ token_cache = NoFile /\ cache_before = NoFile
    /\ token_requests = <<>> /\ resolved = Unresolved

\* Addressing before any call: no server state, nothing resolved.
NoLocator == [scheme |-> "", text |-> <<>>]
NoServer == [login_dir |-> <<>>, root_allowed |-> TRUE, dirs |-> {}, files |-> {}]
NoCalls ==
    /\ operation = "none" /\ addresses = <<>> /\ drive = {}
    /\ conn_trace = <<>>

AddrIdle ==
    /\ backend = "none" /\ bucket_link = NoLocator /\ cloud_folder_path = <<>>
    /\ object_name = <<>> /\ ftp_server = NoServer /\ NoCalls

\* Folder creation and FTP sessions before any call.
SessIdle ==
    /\ uploader = "none" /\ method = "none" /\ depth = 0 /\ present = 0 /\ seg = 0
    /\ batch_size = 0 /\ sent_items = 0 /\ sock = "none" /\ commands = <<>>
    /\ raising = "" /\ step = "idle"

\* HTTP requests before any call.
HttpIdle ==
    /\ requester = "none" /\ api_method = "none" /\ plan = <<>> /\ in_flight = ""
    /\ http_log = <<>> /\ call_state = "idle"

\* _run_async before any call.
NoCoroutine == [awaits |-> 0, ends |-> "none", result |-> ""]
AsyncIdle ==
    /\ running_loop = FALSE /\ coro = NoCoroutine /\ coro_pos = 0 /\ ran_on = {}
    /\ result = <<>> /\ caller_pc = "idle" /\ thread_pc = "none"
    /\ returned_value = ""

\* upload_thing's presign protocol before any call.
UtIdle ==
    /\ ut_files = 0 /\ ut_status = 0 /\ ut_presigned = <<>> /\ ut_idx = 0
    /\ ut_requests = <<>> /\ ut_pc = "idle"

\* supabase before any call.
NoError == [class |-> "none", msg |-> <<>>, hint |-> "", cause |-> <<>>]
SbIdle ==
    /\ sb_method = "none" /\ role = "None" /\ sb_items = 0 /\ sb_idx = 0
    /\ sb_answers = <<>> /\ sb_raised = NoError /\ sb_pc = "idle"

\* Filenames before any invocation.  A name is a sequence of characters.
None == [none |-> TRUE, name |-> <<>>]
NamesIdle ==
    /\ platform = "posix" /\ raw_filename = <<>> /\ custom_filename = <<>>
    /\ save_node = "none" /\ batch_total = 0 /\ sanitized_filename = None
    /\ filenames = <<>> /\ names_pc = "idle"

\* A save node before any invocation.
StatIdle ==
    /\ sn_node = "none" /\ save_to_cloud = FALSE /\ save_to_local = FALSE
    /\ sn_total = 0 /\ sn_idx = 0 /\ ui_results = 0 /\ written = 0 /\ cloud_items = 0
    /\ upload_outcome = "none" /\ returned_cloud = 0 /\ status_events = <<>>
    /\ out_file = "absent" /\ sn_pc = "idle"

\* The token cache with no _write_cached_tokens call in progress.
CacheIdle ==
    /\ shared_cache = [valid |-> TRUE, apps |-> {}]
    /\ writer_pc = <<>> /\ writer_data = <<>>

\* FTP download before any call.
RetrIdle ==
    /\ retr_op = "none" /\ retr_byte_cb = FALSE /\ remote_files = <<>>
    /\ candidate = 0 /\ received = 0 /\ bio = <<>>
    /\ retr_sent = 0 /\ retr_events = <<>> /\ retrieved = 0
    /\ retr_pc = "idle"

EarlierIdle == BatchInit /\ RoundTripIdle /\ LogIdle /\ CredIdle /\ AddrIdle
LaterIdle == SessIdle /\ HttpIdle /\ AsyncIdle /\ UtIdle /\ SbIdle /\ NamesIdle /\ StatIdle /\ CacheIdle /\ RetrIdle

Init == EarlierIdle /\ LaterIdle

\* ------------------------------------------------------------------- calls
\* Uploader.upload_many / download_many called directly with a batch.
DirectCall ==
    /\ pc = "idle"
    /\ \E m \in Modules, o \in Ops, p \in BOOLEAN, b \in BOOLEAN :
          \E its \in Batches(m) :
             /\ caller' = "direct" /\ provider' = "" /\ module' = m /\ op' = o
             /\ items' = its /\ progress_callback' = p /\ byte_callback' = b
    /\ attempt' = 1 /\ pc' = "bind"
    /\ UNCHANGED <<loopVars, histVars, nodeVars, exc>>
    /\ UNCHANGED outsideBatch

\* Sizes a node's batch is drawn from.
NodeBatches(name) ==
    IF name \in DOMAIN providers THEN Batches(providers[name]) ELSE Batches("none")

\* A save node (upload_many) or load node (download_many) with a non-empty
\* batch: get_uploader(cloud_provider), then the batch call with both
\* callbacks.
NodeCall ==
    /\ pc = "idle"
    /\ \E name \in cloud_provider_choices \cup OtherNames, o \in Ops :
          \E its \in NodeBatches(name) :
             /\ its # <<>>
             /\ provider' = name /\ op' = o /\ items' = its
    /\ caller' = "node" /\ module' = "none"
    /\ progress_callback' = TRUE /\ byte_callback' = TRUE
    /\ attempt' = 1 /\ pc' = "lookup" /\ nodePhase' = "running"
    /\ UNCHANGED <<loopVars, histVars, cloud_results, first_attempt, exc>>
    /\ UNCHANGED outsideBatch

\* Uploader = get_uploader(cloud_provider)
Lookup ==
    /\ pc = "lookup"
    /\ module' = get_uploader(provider)
    /\ IF get_uploader(provider) = "none"
       THEN pc' = "raised" /\ exc' = "ValueError"
       ELSE pc' = "bind" /\ exc' = exc
    /\ UNCHANGED <<caller, provider, op, items, progress_callback, byte_callback, attempt>>
    /\ UNCHANGED <<loopVars, histVars, nodeVars>>
    /\ UNCHANGED outsideBatch

\* Binding the positional arguments to the adapter's parameters: a callback
\* passed to an adapter that takes none is a TypeError, raised before the
\* adapter runs.
Bind ==
    /\ pc = "bind"
    /\ IF (progress_callback \/ byte_callback) /\ ~AcceptsCallbacks(module)
       THEN pc' = "raised" /\ exc' = "TypeError"
       ELSE pc' = "setup" /\ exc' = exc
    /\ UNCHANGED <<caller, provider, module, op, items, progress_callback, byte_callback, attempt>>
    /\ UNCHANGED <<loopVars, histVars, nodeVars>>
    /\ UNCHANGED outsideBatch

\* ------------------------------------------------------- shared fragments
\* Where a call continues when a backend request of the loop raises: nothing
\* in the item loops catches it, the call ends with the exception.
AfterTransferErrorSwallowed == "result"

AfterTransferError == "raised"

\* A backend request for the current item fails.
TransferFails ==
    /\ pc' = AfterTransferError
    /\ exc' = "BackendError"
    /\ failedAt' = IF failedAt = -1 THEN idx ELSE failedAt

\* Where a call continues when a caller's callback raises inside
\* "try: callback(...) except Exception: pass": at the next statement.
AfterCallbackErrorAbort(next) == "raised"

AfterCallbackError(next) == next

CallbackPc(raises, next) == IF raises THEN AfterCallbackError(next) ELSE next

\* results.append(...)
AppendResultSkipEmpty(rs, r) == IF r.size = 0 THEN rs ELSE Append(rs, r)

AppendResult(rs, r) == Append(rs, r)

\* cursor.offset = sent, after files_upload_session_append_v2.
CursorAfterAppendStale(cur, newSent) == cur

CursorAfterAppend(cur, newSent) == newSent

\* What the presign endpoint may answer for a batch of n files: per position
\* an uploadUrl ("put"), url+fields ("post"), neither ("none"), or an
\* uploadUrl with "headers" that is a non-empty string, array or number
\* ("bad_headers"); the list may be shorter than the batch.
PresignResponses(n) ==
    UNION {[1 .. k -> {"put", "post", "none", "bad_headers"}] : k \in 0 .. n}

\* The next piece when a library cuts the payload and drives the byte
\* callback itself: everything that remains, or at first one half.
LibraryPieces(total, pos) ==
    {total - pos} \cup (IF pos = 0 /\ total > 1 THEN {total \div 2} ELSE {})

\* ------------------------------------------------------------ upload_many
\* Everything before the item loop: credentials, client, locator, folders;
\* for upload_thing the presign request for the whole batch.
Setup(ok) ==
    /\ pc = "setup"
    /\ \E resp \in (IF module = "upload_thing" /\ op = "upload_many" /\ ok
                    THEN PresignResponses(Len(items)) ELSE {<<>>}) :
          presigned' = resp
    /\ IF ok
       THEN pc' = "item" /\ exc' = exc
       ELSE pc' = "raised" /\ exc' = "BackendError"
    /\ idx' = 0 /\ results' = <<>>
    /\ UNCHANGED <<sent, delta, cursor_offset>>
    /\ UNCHANGED <<callVars, histVars, nodeVars>>
    /\ UNCHANGED outsideBatch

\* The loop is exhausted: return results.
Return ==
    /\ pc = "item" /\ idx = Len(items)
    /\ pc' = "done"
    /\ UNCHANGED <<callVars, loopVars, histVars, nodeVars, exc>>
    /\ UNCHANGED outsideBatch

InUpload == pc = "item" /\ op = "upload_many" /\ idx < Len(items)

\* The single-request branch: put_object / upload_blob / files_upload /
\* multipart POST / PUT :/content / STOR / storage upload / presigned PUT or
\* POST.  upload_thing sends nothing for a position without a target, and
\* for an entry whose "headers" is no dict the test '"Content-Type" not in
\* headers' or the assignment headers["Content-Type"] = ... raises TypeError
\* before the PUT.
UploadSingle(ok) ==
    /\ InUpload
    /\ TransferPath(module, Size, byte_callback) = "single"
    /\ LET target == IF module # "upload_thing" THEN "put"
                     ELSE IF idx < Len(presigned) THEN presigned[idx + 1] ELSE "none"
       IN  IF target = "none"
           THEN /\ ok
                /\ pc' = "result"
                /\ UNCHANGED <<histVars, exc, sent, delta>>
           ELSE IF target = "bad_headers"
           THEN /\ ok
                /\ pc' = "raised" /\ exc' = "TypeError"
                /\ UNCHANGED <<histVars, sent, delta>>
           ELSE IF ok
           THEN /\ events' = Append(events, Ev(target, idx, 0, Size, 0, Size))
                /\ stored' = stored \cup {idx}
                /\ sent' = Size /\ delta' = Size
                /\ pc' = IF module = "supabase_storage" /\ byte_callback
                         THEN "bytecb" ELSE "result"
                /\ UNCHANGED <<failedAt, cbFailed, exc>>
           ELSE /\ TransferFails
                /\ UNCHANGED <<events, stored, cbFailed, sent, delta>>
    /\ UNCHANGED <<idx, cursor_offset, results, presigned>>
    /\ UNCHANGED <<callVars, nodeVars>>
    /\ UNCHANGED outsideBatch

\* dropbox: files_upload_session_start(body[:CHUNK]); sent = CHUNK; the
\* cursor is then created with offset=sent.
DropboxSessionStart(ok) ==
    /\ InUpload /\ module = "dropbox_client"
    /\ TransferPath(module, Size, byte_callback) = "chunked"
    /\ IF ok
       THEN /\ events' = Append(events, Ev("session_start", idx, 0, ChunkLen(module, Size, 0), 0, Size))
            /\ sent' = CHUNK(module) /\ delta' = CHUNK(module)
            /\ cursor_offset' = CHUNK(module)
            /\ pc' = "bytecb"
            /\ UNCHANGED <<stored, failedAt, cbFailed, exc>>
       ELSE /\ TransferFails
            /\ UNCHANGED <<events, stored, cbFailed, sent, delta, cursor_offset>>
    /\ UNCHANGED <<idx, results, presigned>>
    /\ UNCHANGED <<callVars, nodeVars>>
    /\ UNCHANGED outsideBatch

\* dropbox: one turn of "while sent < len(body)": finish with the last
\* chunk, append otherwise.
DropboxSessionChunk(ok) ==
    /\ pc = "chunk" /\ module = "dropbox_client"
    /\ LET n == ChunkLen(module, Size, sent)
           last == (Size - sent) <= CHUNK(module)
       IN  IF ok
           THEN /\ events' = Append(events,
                        Ev(IF last THEN "session_finish" ELSE "session_append",
                           idx, sent, n, cursor_offset, Size))
                /\ sent' = sent + n /\ delta' = n
                /\ cursor_offset' = IF last THEN cursor_offset
                                    ELSE CursorAfterAppend(cursor_offset, sent + n)
                /\ stored' = IF last THEN stored \cup {idx} ELSE stored
                /\ pc' = "bytecb"
                /\ UNCHANGED <<failedAt, cbFailed, exc>>
           ELSE /\ TransferFails
                /\ UNCHANGED <<events, stored, cbFailed, sent, delta, cursor_offset>>
    /\ UNCHANGED <<idx, results, presigned>>
    /\ UNCHANGED <<callVars, nodeVars>>
    /\ UNCHANGED outsideBatch

\* gdrive uploadType=resumable / onedrive createUploadSession.
ResumableInit(ok) ==
    /\ InUpload /\ module \in {"gdrive", "onedrive"}
    /\ TransferPath(module, Size, byte_callback) = "chunked"
    /\ IF ok
       THEN /\ events' = Append(events, Ev("resumable_init", idx, 0, 0, 0, Size))
            /\ sent' = 0
            /\ pc' = "chunk"
            /\ UNCHANGED <<stored, failedAt, cbFailed, exc>>
       ELSE /\ TransferFails
            /\ UNCHANGED <<events, stored, cbFailed, sent>>
    /\ UNCHANGED <<idx, delta, cursor_offset, results, presigned>>
    /\ UNCHANGED <<callVars, nodeVars>>
    /\ UNCHANGED outsideBatch

\* gdrive / onedrive: PUT body[sent:sent+CHUNK] with
\* Content-Range: bytes sent-end/len(body); the range that reaches the end
\* completes the file.
ResumablePut(ok) ==
    /\ pc = "chunk" /\ module \in {"gdrive", "onedrive"}
    /\ LET n == ChunkLen(module, Size, sent)
       IN  IF ok
           THEN /\ events' = Append(events, Ev("resumable_put", idx, sent, n, sent, Size))
                /\ sent' = sent + n /\ delta' = n
                /\ stored' = IF sent + n >= Size THEN stored \cup {idx} ELSE stored
                /\ pc' = "bytecb"
                /\ UNCHANGED <<failedAt, cbFailed, exc>>
           ELSE /\ TransferFails
                /\ UNCHANGED <<events, stored, cbFailed, sent, delta>>
    /\ UNCHANGED <<idx, cursor_offset, results, presigned>>
    /\ UNCHANGED <<callVars, nodeVars>>
    /\ UNCHANGED outsideBatch

\* azure "for bi in range(0, len(body), chunk_size)" and gcs
\* "with blob.open('wb')": the loop is entered at offset 0.
EnterChunkLoop ==
    /\ InUpload
    /\ \/ module = "azure_blob" /\ TransferPath(module, Size, byte_callback) = "chunked"
       \/ TransferPath(module, Size, byte_callback) = "stream"
    /\ sent' = 0
    /\ pc' = IF Size > 0 THEN "chunk" ELSE "finalize"
    /\ UNCHANGED <<idx, delta, cursor_offset, results, presigned>>
    /\ UNCHANGED <<callVars, histVars, nodeVars, exc>>
    /\ UNCHANGED outsideBatch

\* azure: stage_block(block_id, body[bi:bi+chunk_size]).
AzureStageBlock(ok) ==
    /\ pc = "chunk" /\ module = "azure_blob"
    /\ LET n == ChunkLen(module, Size, sent)
       IN  IF ok
           THEN /\ events' = Append(events, Ev("stage_block", idx, sent, n, sent, Size))
                /\ sent' = sent + n /\ delta' = n
                /\ pc' = "bytecb"
                /\ UNCHANGED <<stored, failedAt, cbFailed, exc>>
           ELSE /\ TransferFails
                /\ UNCHANGED <<events, stored, cbFailed, sent, delta>>
    /\ UNCHANGED <<idx, cursor_offset, results, presigned>>
    /\ UNCHANGED <<callVars, nodeVars>>
    /\ UNCHANGED outsideBatch

\* gcs: f.write(bio.read(8 MiB)).
GcsWrite(ok) ==
    /\ pc = "chunk" /\ module = "gcs"
    /\ LET n == ChunkLen(module, Size, sent)
       IN  IF ok
           THEN /\ events' = Append(events, Ev("write", idx, sent, n, sent, Size))
                /\ sent' = sent + n /\ delta' = n
                /\ pc' = "bytecb"
                /\ UNCHANGED <<stored, failedAt, cbFailed, exc>>
           ELSE /\ TransferFails
                /\ UNCHANGED <<events, stored, cbFailed, sent, delta>>
    /\ UNCHANGED <<idx, cursor_offset, results, presigned>>
    /\ UNCHANGED <<callVars, nodeVars>>
    /\ UNCHANGED outsideBatch

\* azure commit_block_list / gcs writer close: the object now exists.
Finalize(ok) ==
    /\ pc = "finalize"
    /\ IF ok
       THEN /\ events' = Append(events,
                    Ev(IF module = "azure_blob" THEN "commit_block_list" ELSE "close",
                       idx, 0, 0, sent, Size))
            /\ stored' = stored \cup {idx}
            /\ pc' = "result"
            /\ UNCHANGED <<failedAt, cbFailed, exc>>
       ELSE /\ TransferFails
            /\ UNCHANGED <<events, stored, cbFailed>>
    /\ UNCHANGED <<loopVars, callVars, nodeVars>>
    /\ UNCHANGED outsideBatch

\* Where the code goes after the byte callback of a chunk or of a whole item.
AfterByteCallback ==
    CASE module \in {"dropbox_client", "gdrive", "onedrive"} /\ op = "upload_many" ->
            IF sent < Size THEN "chunk" ELSE "result"
      [] module \in {"azure_blob", "gcs"} /\ op = "upload_many" ->
            IF sent < Size THEN "chunk" ELSE "finalize"
      [] OTHER -> "result"

\* try: byte_callback({"delta", "sent", "total", "index", ...}) except: pass
\* after a chunk (dropbox, gdrive, onedrive, azure, gcs) or after the whole
\* item (supabase upload and download).
ByteCallback(raises) ==
    /\ pc = "bytecb"
    /\ ~(module = "upload_thing" /\ op = "upload_many")
    /\ events' = Append(events, Ev("byte_callback", idx, 0, delta, sent, Size))
    /\ cbFailed' = (cbFailed \/ raises)
    /\ pc' = CallbackPc(raises, AfterByteCallback)
    /\ UNCHANGED <<stored, failedAt, exc>>
    /\ UNCHANGED <<loopVars, callVars, nodeVars>>
    /\ UNCHANGED outsideBatch

\* s3_compatible upload_fileobj(..., Callback=_cb) / ftp storbinary(...,
\* callback=_cb) begins.
LibraryStart ==
    /\ InUpload
    /\ TransferPath(module, Size, byte_callback) = "library"
    /\ sent' = 0
    /\ pc' = "library"
    /\ UNCHANGED <<idx, delta, cursor_offset, results, presigned>>
    /\ UNCHANGED <<callVars, histVars, nodeVars, exc>>
    /\ UNCHANGED outsideBatch

\* The library reports n more bytes: _cb adds them to sent["n"] and calls
\* byte_callback inside try/except.
LibraryBlock(raises) ==
    /\ pc = "library" /\ sent < Size
    /\ \E n \in LibraryPieces(Size, sent) :
          /\ sent' = sent + n /\ delta' = n
          /\ events' = Append(events, Ev("byte_callback", idx, 0, n, sent + n, Size))
    /\ cbFailed' = (cbFailed \/ raises)
    /\ pc' = CallbackPc(raises, "library")
    /\ UNCHANGED <<stored, failedAt, exc>>
    /\ UNCHANGED <<idx, cursor_offset, results, presigned>>
    /\ UNCHANGED <<callVars, nodeVars>>
    /\ UNCHANGED outsideBatch

\* upload_fileobj sends a request again (a retry after a transport error or
\* a 5xx answer): the transfer library seeks the body back to its start and
\* reports the bytes it takes back to Callback as a negative amount; _cb adds
\* the amount to sent["n"] and hands it on as "delta".  One retry an item.
Rewound(j) ==
    \E n \in 1 .. Len(events) :
       events[n].kind = "byte_callback" /\ events[n].index = j /\ events[n].len < 0

LibraryRewind(raises) ==
    /\ pc = "library" /\ module = "s3_compatible"
    /\ sent > 0 /\ ~Rewound(idx)
    /\ sent' = 0 /\ delta' = 0 - sent
    /\ events' = Append(events, Ev("byte_callback", idx, 0, 0 - sent, 0, Size))
    /\ cbFailed' = (cbFailed \/ raises)
    /\ pc' = CallbackPc(raises, "library")
    /\ UNCHANGED <<stored, failedAt, exc>>
    /\ UNCHANGED <<idx, cursor_offset, results, presigned>>
    /\ UNCHANGED <<callVars, nodeVars>>
    /\ UNCHANGED outsideBatch

\* The library call returns once every byte is sent, or raises.
LibraryEnd(ok) ==
    /\ pc = "library"
    /\ IF ok
       THEN /\ sent = Size
            /\ events' = Append(events, Ev("put", idx, 0, Size, 0, Size))
            /\ stored' = stored \cup {idx}
            /\ pc' = "result"
            /\ UNCHANGED <<failedAt, cbFailed, exc>>
       ELSE /\ TransferFails
            /\ UNCHANGED <<events, stored, cbFailed>>
    /\ UNCHANGED <<loopVars, callVars, nodeVars>>
    /\ UNCHANGED outsideBatch

\* results.append(...), then "if progress_callback: try: progress_callback(
\* {"index": idx, ...}) except: pass".  upload_thing's upload_many calls
\* byte_callback for the whole item after that; every other loop goes on
\* with the next item.
ItemDone(raises) ==
    /\ pc = "result"
    /\ raises => progress_callback
    /\ results' = AppendResult(results, [filename |-> FilenameAt(idx), size |-> Size])
    /\ events' = IF progress_callback
                 THEN Append(events, Ev("progress_callback", idx, 0, 0, 0, 0))
                 ELSE events
    /\ cbFailed' = (cbFailed \/ raises)
    /\ IF module = "upload_thing" /\ op = "upload_many" /\ byte_callback
       THEN pc' = CallbackPc(raises, "bytecb") /\ idx' = idx
       ELSE pc' = CallbackPc(raises, "item") /\ idx' = idx + 1
    /\ UNCHANGED <<stored, failedAt, exc>>
    /\ UNCHANGED <<sent, delta, cursor_offset, presigned>>
    /\ UNCHANGED <<callVars, nodeVars>>
    /\ UNCHANGED outsideBatch

\* upload_thing upload_many: byte_callback({"delta": len(body), "sent":
\* len(body), "total": len(body), ...}) as the last statement of the turn.
UtByteCallback(raises) ==
    /\ pc = "bytecb" /\ module = "upload_thing" /\ op = "upload_many"
    /\ events' = Append(events, Ev("byte_callback", idx, 0, Size, Size, Size))
    /\ cbFailed' = (cbFailed \/ raises)
    /\ pc' = CallbackPc(raises, "item")
    /\ idx' = idx + 1
    /\ UNCHANGED <<stored, failedAt, exc>>
    /\ UNCHANGED <<sent, delta, cursor_offset, results, presigned>>
    /\ UNCHANGED <<callVars, nodeVars>>
    /\ UNCHANGED outsideBatch

\* ---------------------------------------------------------- download_many
\* chunk_size / read size of the download loops that cut the pieces
\* themselves; 0 where a library cuts them (azure chunks(), ftp retrbinary).
ReadSize(m) ==
    CASE m = "dropbox_client" -> 4 * MiB
      [] m \in {"s3_compatible", "gcs", "gdrive", "onedrive", "upload_thing"} -> 8 * MiB
      [] OTHER -> 0

DownloadPieces(m, total, pos) ==
    IF ReadSize(m) > 0 THEN {Min(ReadSize(m), total - pos)} ELSE LibraryPieces(total, pos)

\* The request that fetches item idx: get_object / download_blob /
\* files_download / search + alt=media / :/content / RETR / storage download /
\* urlopen.
DownloadGet(ok) ==
    /\ pc = "item" /\ op = "download_many" /\ idx < Len(items)
    /\ IF ok
       THEN /\ events' = Append(events, Ev("get", idx, 0, Size, 0, Size))
            /\ IF byte_callback /\ module = "supabase_storage"
               THEN sent' = Size /\ delta' = Size /\ pc' = "bytecb"
               ELSE /\ sent' = 0 /\ delta' = 0
                    /\ pc' = IF byte_callback /\ Size > 0 THEN "read" ELSE "result"
            /\ UNCHANGED <<stored, failedAt, cbFailed, exc>>
       ELSE /\ TransferFails
            /\ UNCHANGED <<events, stored, cbFailed, sent, delta>>
    /\ UNCHANGED <<idx, cursor_offset, results, presigned>>
    /\ UNCHANGED <<callVars, nodeVars>>
    /\ UNCHANGED outsideBatch

\* One piece of the body arrives and is reported:
\* try: byte_callback({"delta": len(chunk), "sent": sent, ...}) except: pass
DownloadRead(raises) ==
    /\ pc = "read"
    /\ \E n \in DownloadPieces(module, Size, sent) :
          /\ sent' = sent + n /\ delta' = n
          /\ events' = Append(events, Ev("byte_callback", idx, 0, n, sent + n, Size))
          /\ pc' = CallbackPc(raises, IF sent + n < Size THEN "read" ELSE "result")
    /\ cbFailed' = (cbFailed \/ raises)
    /\ UNCHANGED <<stored, failedAt, exc>>
    /\ UNCHANGED <<idx, cursor_offset, results, presigned>>
    /\ UNCHANGED <<callVars, nodeVars>>
    /\ UNCHANGED outsideBatch

\* -------------------------------------------------------------------- node
\* try: upload_many(..., _progress_cb, _bytes_cb)
\* except TypeError: upload_many(..., _progress_cb)
\* The first call raised TypeError, at the binding of its arguments or
\* inside the adapter: the node calls again with the same items, without the
\* byte callback.
CaughtByFallbackAnyError == pc = "raised" /\ exc \in {"TypeError", "BackendError"} /\ attempt = 1
CaughtByFallback == pc = "raised" /\ exc = "TypeError" /\ attempt = 1

NodeFallback ==
    /\ caller = "node" /\ nodePhase = "running"
    /\ CaughtByFallback
    /\ attempt' = 2 /\ byte_callback' = FALSE /\ pc' = "bind" /\ exc' = "none"
    /\ first_attempt' = [events |-> events, stored |-> stored]
    /\ events' = <<>> /\ stored' = {} /\ failedAt' = -1 /\ cbFailed' = FALSE
    /\ UNCHANGED <<caller, provider, module, op, items, progress_callback>>
    /\ UNCHANGED <<loopVars, nodePhase, cloud_results>>
    /\ UNCHANGED outsideBatch

\* The node's "except Exception" / "else" around the cloud phase.
NodeFinish ==
    /\ caller = "node" /\ nodePhase = "running"
    /\ pc \in {"done", "raised"}
    /\ ~CaughtByFallback
    /\ nodePhase' = IF pc = "done" THEN "complete" ELSE "error"
    /\ cloud_results' = IF pc = "done" THEN results ELSE <<>>
    /\ UNCHANGED <<callVars, loopVars, histVars, first_attempt, pc, exc>>
    /\ UNCHANGED outsideBatch

Next ==
    \/ DirectCall
    \/ NodeCall
    \/ Lookup
    \/ Bind
    \/ \E ok \in BOOLEAN : Setup(ok)
    \/ Return
    \/ \E ok \in BOOLEAN : UploadSingle(ok)
    \/ \E ok \in BOOLEAN : DropboxSessionStart(ok)
    \/ \E ok \in BOOLEAN : DropboxSessionChunk(ok)
    \/ \E ok \in BOOLEAN : ResumableInit(ok)
    \/ \E ok \in BOOLEAN : ResumablePut(ok)
    \/ EnterChunkLoop
    \/ \E ok \in BOOLEAN : AzureStageBlock(ok)
    \/ \E ok \in BOOLEAN : GcsWrite(ok)
    \/ \E ok \in BOOLEAN : Finalize(ok)
    \/ \E raises \in BOOLEAN : ByteCallback(raises)
    \/ LibraryStart
    \/ \E raises \in BOOLEAN : LibraryBlock(raises)
    \/ \E raises \in BOOLEAN : LibraryRewind(raises)
    \/ \E ok \in BOOLEAN : LibraryEnd(ok)
    \/ \E raises \in BOOLEAN : ItemDone(raises)
    \/ \E raises \in BOOLEAN : UtByteCallback(raises)
    \/ \E ok \in BOOLEAN : DownloadGet(ok)
    \/ \E raises \in BOOLEAN : DownloadRead(raises)
    \/ NodeFallback
    \/ NodeFinish

Spec == Init /\ [][Next]_vars

\* ------------------------------------------- single-object upload / download
\* Uploader.upload(image_bytes, filename, ...) and Uploader.download(
\* key_or_filename, ...) of one adapter, against one locator, folder path and
\* credential.  A backend file is [key, content]; files holds them oldest
\* first.
Filenames == {"a.png", "b.png"}
Contents == {"c1", "c2"}

\* upload_thing: the key the presign response assigns to the n-th file.
FileKey(n) == <<"key1", "key2", "key3", "key4">>[n]

\* gdrive posts a new file under the parent folder whatever the folder holds;
\* upload_thing puts to the target presigned for a key of the server's.
CreatesNewFile(m) == m \in {"gdrive", "upload_thing"}

\* "path" of the dict upload() returns, here without the folder prefix.
UploadPath(m, n, filename) == IF m = "upload_thing" THEN FileKey(n) ELSE filename

WithoutKey(fs, k) == SelectSeq(fs, LAMBDA f : f.key # k)

\* The backend after upload(): put_object / upload_blob(overwrite=True) /
\* WriteMode.overwrite / STOR / upsert replace the object of the key.
FilesAfterUpload(m, fs, n, filename, content) ==
    IF CreatesNewFile(m)
    THEN Append(fs, [key |-> UploadPath(m, n, filename), content |-> content])
    ELSE Append(WithoutKey(fs, filename), [key |-> filename, content |-> content])

\* What download() can return: the object of the key; gdrive takes files[0]
\* of a name search whose order the backend chooses.
DownloadOutcomes(m, fs, k) ==
    LET matches == {i \in 1 .. Len(fs) : fs[i].key = k} IN
       IF matches = {} THEN {"not_found"}
       ELSE IF m = "gdrive" THEN {fs[i].content : i \in matches}
       ELSE {fs[CHOOSE i \in matches : TRUE].content}

upload(ok) ==
    /\ n_uploads < MaxUploads
    /\ n_uploads' = n_uploads + 1
    /\ \E filename \in Filenames, content \in Contents :
          IF ok
          THEN /\ files' = FilesAfterUpload(adapter, files, n_uploads + 1, filename, content)
               /\ last_upload' = [filename |-> filename, content |-> content,
                                  path |-> UploadPath(adapter, n_uploads + 1, filename)]
               /\ rtPc' = "uploaded"
          ELSE /\ rtPc' = "raised"
               /\ UNCHANGED <<files, last_upload>>
    /\ fresh' = FALSE /\ download_key' = "" /\ downloaded' = ""
    /\ UNCHANGED <<adapter, outsideRoundTrip>>

download ==
    /\ rtPc # "idle"
    /\ \E k \in Filenames \cup {FileKey(n) : n \in 1 .. MaxUploads} :
          /\ download_key' = k
          /\ \E r \in DownloadOutcomes(adapter, files, k) :
                /\ downloaded' = r
                /\ rtPc' = IF r = "not_found" THEN "raised" ELSE "downloaded"
    /\ fresh' = (rtPc = "uploaded")
    /\ UNCHANGED <<adapter, files, n_uploads, last_upload, outsideRoundTrip>>

InitRoundTrip == BatchInit /\ LogIdle /\ CredIdle /\ AddrIdle /\ LaterIdle /\ adapter \in Modules /\ RoundTripInit

NextRoundTrip ==
    \/ \E ok \in BOOLEAN : upload(ok)
    \/ download

SpecRoundTrip == InitRoundTrip /\ [][NextRoundTrip]_vars

\* ------------------------------------------------ log_exceptions / _sanitize
\* A str is a sequence of one-character strings; a value is tagged with its
\* Python type: [t |-> "str" | "bytes" | "dict" | "list" | "tuple", v |-> ...],
\* a dict's v being a function from its keys.
Str(cs) == [t |-> "str", v |-> cs]
Dict(f) == [t |-> "dict", v |-> f]
Chars(n) == [i \in 1 .. n |-> "x"]

SENSITIVE_KEYS ==
    {"api_key", "access_key", "secret_key", "client_secret", "authorization",
     "token", "access_token", "refresh_token"}

\* Keys and keyword names tried, and str.lower() on them.
KeyNames == {"api_key", "Token", "filename"}
Lower(k) == CASE k = "Token" -> "token" [] OTHER -> k

\* str(k).lower() in SENSITIVE_KEYS
IsSensitiveExact(k) == k \in SENSITIVE_KEYS

IsSensitive(k) == Lower(k) \in SENSITIVE_KEYS

MASK == Str(<<"*", "*", "*">>)

\* _sanitize: len(value) > 128 and value[:125] + "..."
StrLimit == 128
StrKeep == 125

RECURSIVE _sanitize(_)
_sanitize(value) ==
    IF value.t = "dict"
    THEN Dict([k \in DOMAIN value.v |->
                  IF IsSensitive(k) THEN MASK ELSE _sanitize(value.v[k])])
    ELSE IF value.t \in {"list", "tuple"}
    THEN [t |-> value.t, v |-> [i \in 1 .. Len(value.v) |-> _sanitize(value.v[i])]]
    ELSE IF value.t = "str" /\ Len(value.v) > StrLimit
    THEN Str(SubSeq(value.v, 1, StrKeep) \o <<".", ".", ".">>)
    ELSE value

\* safe_kwargs and safe_args of the wrapper, and the line it prints (the
\* exception text and the traceback that follow are the failing function's).
SafeKwargs(kw) == [k \in DOMAIN kw |-> IF IsSensitive(k) THEN MASK ELSE _sanitize(kw[k])]
SafeArgs(as) == [i \in 1 .. Len(as) |-> _sanitize(as[i])]
LogLine(f, as, kw) == [func |-> f, args |-> SafeArgs(as), kwargs |-> SafeKwargs(kw)]

\* The secrets tried, and the strings a call may carry one in.
Secrets == {<<"s", "k", "1">>, <<"p", "w", "2">>}
Plain == <<"o", "k">>
JsonCredential(sec) == <<"{", "\"", "t", "o", "k", "e", "n", "\"", ":">> \o sec \o <<"}">>
FtpLocator(sec) == <<"f", "t", "p", ":", "/", "/", "u", ":">> \o sec \o <<"@", "h", "/">>
Leaves(sec) ==
    {Str(sec), Str(Plain), Str(Chars(StrLimit)), Str(Chars(StrLimit + 1)),
     Str(sec \o Chars(StrLimit))}

\* Values nested to depth d: a leaf, a one-entry dict, a list or a tuple.
RECURSIVE Values(_, _)
Values(d, sec) ==
    IF d = 0 THEN Leaves(sec)
    ELSE LET inner == Values(d - 1, sec) IN
            inner
            \cup {Dict([k \in {key} |-> v]) : key \in KeyNames, v \in inner}
            \cup {[t |-> "list", v |-> <<v>>] : v \in inner}
            \cup {[t |-> "tuple", v |-> <<Str(Plain), v>>] : v \in inner}

NoKwargs == <<>>
KwargChoices(sec) ==
    {NoKwargs} \cup {[k \in {key} |-> v] : key \in KeyNames, v \in Leaves(sec)}

\* The calls tried: how the adapters call their wrapped functions
\* (positionally), and a wrapped function f called with any value.
CredentialShapes == {"token", "json", "locator"}
FuncOf(shape) ==
    CASE shape = "token" -> "dropbox_client.Uploader._get_dbx"
      [] shape = "json" -> "dropbox_client.Uploader._get_dbx"
      [] shape = "locator" -> "ftp_client.Uploader.upload"
      [] OTHER -> "f"
ArgsOf(shape, sec) ==
    CASE shape = "token" -> <<Str(sec)>>
      [] shape = "json" -> <<Str(JsonCredential(sec))>>
      [] shape = "locator" ->
            <<[t |-> "bytes", v |-> <<>>], Str(Plain), Str(FtpLocator(sec)), Str(Plain), Str(<<>>)>>

InitLog ==
    /\ BatchInit /\ RoundTripIdle /\ CredIdle /\ AddrIdle /\ LaterIdle
    /\ secret \in Secrets
    /\ \/ \E shape \in CredentialShapes :
             func = FuncOf(shape) /\ args = ArgsOf(shape, secret) /\ kwargs = NoKwargs
       \/ /\ func = "f"
          /\ args \in {<<v>> : v \in Values(MaxDepth, secret)}
          /\ kwargs \in KwargChoices(secret)
    /\ printed = <<>> /\ logPc = "call"

\* wrapper(*args, **kwargs): the function returns, or raises and the
\* wrapper prints the line and re-raises.
wrapper(fails) ==
    /\ logPc = "call"
    /\ IF fails
       THEN printed' = Append(printed, LogLine(func, args, kwargs)) /\ logPc' = "raised"
       ELSE printed' = printed /\ logPc' = "returned"
    /\ UNCHANGED <<func, secret, args, kwargs, outsideLog>>

NextLog == \E fails \in BOOLEAN : wrapper(fails)

SpecLog == InitLog /\ [][NextLog]_vars

\* ------------------------------------------------- credential resolution
\* A credential (cloud_api_key) is the empty string, a raw token, or a JSON
\* object.  app_key / app_secret are strs (sequences of characters), so that
\* _cache_key can join them.

Apps == {[app_key |-> <<"k", "1">>, app_secret |-> <<"s", "1">>],
         [app_key |-> <<"k", "2">>, app_secret |-> <<"s", "2">>]}

\* The app parts a JSON credential may carry: none, the key alone, or both.
AppParts ==
    {[app_key |-> NoStr, app_secret |-> NoStr],
     [app_key |-> <<"k", "1">>, app_secret |-> NoStr]} \cup Apps

\* The token parts it may carry.
TokenParts ==
    {[refresh_token |-> r, access_token |-> a, authorization_code |-> c] :
        r \in {Absent, "rt_user"}, a \in {Absent, "at_user"}, c \in {Absent, "code"}}

JsonCredentials ==
    {[json |-> TRUE, raw |-> Absent,
      app_key |-> p.app_key, app_secret |-> p.app_secret,
      refresh_token |-> t.refresh_token, access_token |-> t.access_token,
      authorization_code |-> t.authorization_code] :
        p \in AppParts, t \in TokenParts}

RawCredentials ==
    {[json |-> FALSE, raw |-> t,
      app_key |-> NoStr, app_secret |-> NoStr,
      refresh_token |-> Absent, access_token |-> Absent, authorization_code |-> Absent] :
        t \in {Absent, "at_raw"}}

Credentials == JsonCredentials \cup RawCredentials

\* The text of the credential, as the adapters hold it in `key`.
JsonText == "{json}"
KeyText(cred) == IF cred.json THEN JsonText ELSE cred.raw

\* hashlib.sha256(f"{app_key}:{app_secret}"): one digest per joined string.
_cache_key_of_app_key(app_key, app_secret) == [sha256 |-> app_key]
_cache_key(app_key, app_secret) == [sha256 |-> app_key \o <<":">> \o app_secret]

\* What the file system does during one call: every file operation works,
\* reading the cache file raises, opening it for writing raises, or the
\* write raises after the file was opened (and truncated).
FsOutcomes == {"ok", "read_fails", "write_fails", "write_truncates"}

\* Answers of the token endpoint to an authorization-code grant and to a
\* refresh-token grant.
CodeResponses == {"error", "both", "no_refresh", "no_access"}
RefreshResponses == {"error", "access", "no_access"}

_token_request(grant, resp) ==
    IF grant = "authorization_code"
    THEN [ok |-> resp # "error",
          refresh_token |-> IF resp \in {"both", "no_access"} THEN "rt_minted" ELSE Absent,
          access_token |-> IF resp \in {"both", "no_refresh"} THEN "at_minted" ELSE Absent]
    ELSE [ok |-> resp # "error",
          refresh_token |-> Absent,
          access_token |-> IF resp = "access" THEN "at_refreshed" ELSE Absent]

\* dropbox_tokens.json
TruncatedFile == [exists |-> TRUE, valid |-> FALSE, data |-> NoData]

Loads(file, fs) == file.exists /\ file.valid /\ fs # "read_fails"

_read_cached_tokens(file, app_key, app_secret, fs) ==
    IF Loads(file, fs) /\ _cache_key(app_key, app_secret) \in DOMAIN file.data
    THEN file.data[_cache_key(app_key, app_secret)]
    ELSE NoEntry

\* The data the writer starts from: the file's, or {} when the file is
\* missing or cannot be read.
DataToRewrite(file, fs) == IF Loads(file, fs) THEN file.data ELSE NoData

_write_cached_tokens(file, app_key, app_secret, refresh_token, access_token, fs) ==
    IF refresh_token = Absent THEN file
    ELSE LET data == DataToRewrite(file, fs)
             key == _cache_key(app_key, app_secret)
             entry == [app_key |-> app_key, refresh_token |-> refresh_token,
                       access_token |-> access_token]
         IN  CASE fs = "write_fails" -> file
               [] fs = "write_truncates" -> TruncatedFile
               [] OTHER ->
                    [exists |-> TRUE, valid |-> TRUE,
                     data |-> [k \in DOMAIN data \cup {key} |->
                                  IF k = key THEN entry ELSE data[k]]]

Raised(error, requests, file) ==
    [raised |-> error, requests |-> requests, file |-> file,
     refresh_token |-> Absent, access_token |-> Absent, generated |-> FALSE]
Returned(refresh_token, access_token, generated, requests, file) ==
    [raised |-> "", requests |-> requests, file |-> file,
     refresh_token |-> refresh_token, access_token |-> access_token,
     generated |-> generated]

\* The cache entry consulted: none unless the credential has both app parts.
CachedIgnored(cred, file, fs) == NoEntry
Cached(cred, file, fs) ==
    IF cred.app_key # NoStr /\ cred.app_secret # NoStr
    THEN _read_cached_tokens(file, cred.app_key, cred.app_secret, fs)
    ELSE NoEntry

\* Uploader._parse_credentials(api_key).
_parse_credentials(cred, file, fs, codeResp) ==
    IF KeyText(cred) = Absent THEN Raised("ValueError", <<>>, file)
    ELSE IF ~cred.json THEN Returned(Absent, cred.raw, FALSE, <<>>, file)
    ELSE
      LET hasApp == cred.app_key # NoStr /\ cred.app_secret # NoStr
          cached == Cached(cred, file, fs)
          useCached == cred.refresh_token = Absent /\ cached.refresh_token # Absent
          refresh_token == IF useCached THEN cached.refresh_token ELSE cred.refresh_token
          access_token == IF useCached /\ cred.access_token = Absent
                          THEN cached.access_token ELSE cred.access_token
          token_data == _token_request("authorization_code", codeResp)
      IN  IF refresh_token # Absent /\ hasApp
          THEN Returned(refresh_token, access_token, FALSE, <<>>, file)
          ELSE IF cred.authorization_code # Absent /\ hasApp
          THEN IF ~token_data.ok \/ token_data.refresh_token = Absent
               THEN Raised("ValueError", <<"authorization_code">>, file)
               ELSE Returned(token_data.refresh_token, token_data.access_token, TRUE,
                             <<"authorization_code">>,
                             _write_cached_tokens(file, cred.app_key, cred.app_secret,
                                                  token_data.refresh_token,
                                                  token_data.access_token, fs))
          ELSE IF access_token # Absent
          THEN Returned(Absent, access_token, FALSE, <<>>, file)
          ELSE Raised("ValueError", <<>>, file)

\* What a resolution ends with: an error, or the tokens of the client (of
\* the Authorization header for Google Drive and OneDrive).
Client(access_token, refresh_token) ==
    [status |-> "client", error |-> "", access_token |-> access_token,
     refresh_token |-> refresh_token]
Failure(error) ==
    [status |-> "raised", error |-> error, access_token |-> Absent,
     refresh_token |-> Absent]

\* Uploader._get_dbx(api_key): [requests, file, result].
_get_dbx(cred, file, fs, codeResp, refreshResp) ==
    LET creds == _parse_credentials(cred, file, fs, codeResp)
        token_data == _token_request("refresh_token", refreshResp)
        requests == Append(creds.requests, "refresh_token")
    IN  IF creds.raised # ""
        THEN [requests |-> creds.requests, file |-> creds.file,
              result |-> Failure(creds.raised)]
        ELSE IF creds.refresh_token # Absent
        THEN IF creds.access_token # Absent
             THEN [requests |-> creds.requests, file |-> creds.file,
                   result |-> Client(creds.access_token, creds.refresh_token)]
             ELSE IF ~token_data.ok
             THEN [requests |-> requests, file |-> creds.file,
                   result |-> Failure("RuntimeError")]
             ELSE [requests |-> requests,
                   file |-> _write_cached_tokens(creds.file, cred.app_key, cred.app_secret,
                                                 creds.refresh_token,
                                                 token_data.access_token, fs),
                   result |-> IF token_data.access_token = Absent
                              THEN Failure("RuntimeError")
                              ELSE Client(token_data.access_token, creds.refresh_token)]
        ELSE [requests |-> creds.requests, file |-> creds.file,
              result |-> IF creds.access_token = Absent
                         THEN Failure("ValueError")
                         ELSE Client(creds.access_token, Absent)]

\* gdrive._get_access_token / onedrive._get_access_token: [requests, raised,
\* token]; a token of "None" is Python's None.
ExchangesRefresh(svc, cred) ==
    /\ cred.refresh_token # Absent /\ cred.app_key # NoStr
    /\ svc = "gdrive" => cred.app_secret # NoStr

_get_access_token(svc, cred, refreshResp) ==
    LET token_data == _token_request("refresh_token", refreshResp)
    IN  IF cred.json /\ ExchangesRefresh(svc, cred)
        THEN IF ~token_data.ok
             THEN [requests |-> <<"refresh_token">>, raised |-> "HTTPError", token |-> Absent]
             ELSE [requests |-> <<"refresh_token">>, raised |-> "",
                   token |-> IF token_data.access_token = Absent THEN "None"
                             ELSE token_data.access_token]
        ELSE IF cred.json /\ cred.access_token # Absent
        THEN [requests |-> <<>>, raised |-> "", token |-> cred.access_token]
        ELSE [requests |-> <<>>, raised |-> "", token |-> KeyText(cred)]

\* The head of Uploader.upload of gdrive / onedrive: the api_key test, then
\* _get_access_token, then _get_headers (which resolves a second time).
ResolveHeaders(svc, cred, refreshResp) ==
    LET first == _get_access_token(svc, cred, refreshResp)
        second == _get_access_token(svc, cred, refreshResp)
    IN  IF KeyText(cred) = Absent
        THEN [requests |-> <<>>, result |-> Failure("ValueError")]
        ELSE IF first.raised # ""
        THEN [requests |-> first.requests, result |-> Failure(first.raised)]
        ELSE IF svc = "gdrive" /\ second.token = "None"
        THEN [requests |-> first.requests \o second.requests,
              result |-> Failure("ValueError")]
        ELSE [requests |-> first.requests \o second.requests,
              result |-> Client(second.token, Absent)]

KeysOf(file) == IF file.exists /\ file.valid THEN DOMAIN file.data ELSE {}

Sends(requests, grant) == \E n \in 1 .. Len(requests) : requests[n] = grant

\* The environment of a call is what it meets: the answer to each grant it
\* sends ("none" for a grant it does not send), and the behaviour of the
\* file system when it touches the cache file.
FsMet(cred) ==
    IF cred.json /\ cred.app_key # NoStr /\ cred.app_secret # NoStr
    THEN FsOutcomes ELSE {"ok"}
CodeMet(cred, file, fs) ==
    IF Sends(_get_dbx(cred, file, fs, "both", "access").requests, "authorization_code")
    THEN CodeResponses ELSE {"none"}
RefreshMet(cred, file, fs, codeResp) ==
    IF Sends(_get_dbx(cred, file, fs, codeResp, "access").requests, "refresh_token")
    THEN RefreshResponses ELSE {"none"}
DriveRefreshMet(svc, cred) ==
    IF KeyText(cred) # Absent /\ cred.json /\ ExchangesRefresh(svc, cred)
    THEN RefreshResponses ELSE {"none"}

\* One Dropbox operation resolving its credential.
DropboxCall ==
    \E cred \in Credentials :
      \E fs \in FsMet(cred) :
        \E codeResp \in CodeMet(cred, token_cache, fs) :
          \E refreshResp \in RefreshMet(cred, token_cache, fs, codeResp) :
        LET out == _get_dbx(cred, token_cache, fs, codeResp, refreshResp)
        IN  /\ service' = "dropbox" /\ api_key' = cred
            /\ env' = [fs |-> fs, code |-> codeResp, refresh |-> refreshResp]
            /\ cache_before' = token_cache
            /\ token_requests' = out.requests
            /\ token_cache' = out.file
            /\ resolved' = out.result
            /\ UNCHANGED outsideCred

\* One Google Drive or OneDrive upload resolving its credential.
DriveCall ==
    \E svc \in {"gdrive", "onedrive"}, cred \in Credentials :
      \E refreshResp \in DriveRefreshMet(svc, cred) :
        LET out == ResolveHeaders(svc, cred, refreshResp)
        IN  /\ service' = svc /\ api_key' = cred
            /\ env' = [fs |-> "ok", code |-> "none", refresh |-> refreshResp]
            /\ token_requests' = out.requests
            /\ resolved' = out.result
            /\ cache_before' = token_cache
            /\ UNCHANGED <<token_cache, outsideCred>>

InitCreds == BatchInit /\ RoundTripIdle /\ LogIdle /\ CredIdle /\ AddrIdle /\ LaterIdle

NextCreds == DropboxCall \/ DriveCall

SpecCreds == InitCreds /\ [][NextCreds]_vars

\* ------------------------------------------------------ address resolution
\* A str is a sequence of atoms: "/" or a run of other characters.  A
\* locator is [scheme, text], text being what follows 'scheme://' (the whole
\* link when scheme is "").
MaxFolderLen == 4
MaxCalls == 2

RECURSIVE Texts(_, _)
Texts(atoms, n) ==
    IF n = 0 THEN {<<>>}
    ELSE Texts(atoms, n - 1)
            \cup {Append(t, a) : t \in {u \in Texts(atoms, n - 1) : Len(u) = n - 1}, a \in atoms}

\* str.lstrip('/'), str.rstrip('/'), str.strip('/')
RECURSIVE LStrip(_)
LStrip(str) == IF str # <<>> /\ Head(str) = "/" THEN LStrip(Tail(str)) ELSE str
RECURSIVE RStrip(_)
RStrip(str) ==
    IF str # <<>> /\ str[Len(str)] = "/" THEN RStrip(SubSeq(str, 1, Len(str) - 1)) ELSE str
StripEnds(str) == RStrip(LStrip(str))

\* str.split('/'): the list of the pieces between slashes, empty ones kept.
HasSlash(str) == \E i \in 1 .. Len(str) : str[i] = "/"
FirstSlash(str) == CHOOSE i \in 1 .. Len(str) : str[i] = "/" /\ \A j \in 1 .. (i - 1) : str[j] # "/"
RECURSIVE Split(_)
Split(str) ==
    IF ~HasSlash(str) THEN <<str>>
    ELSE <<SubSeq(str, 1, FirstSlash(str) - 1)>>
            \o Split(SubSeq(str, FirstSlash(str) + 1, Len(str)))

\* '/'.join(parts)
RECURSIVE Join(_)
Join(parts) ==
    IF parts = <<>> THEN <<>>
    ELSE IF Len(parts) = 1 THEN parts[1]
    ELSE parts[1] \o <<"/">> \o Join(Tail(parts))

\* urllib.parse.urlparse on a link without query or fragment: with a scheme
\* the netloc runs to the first '/', the path is the rest; without one the
\* whole link is the path.
urlparse(link) ==
    IF link.scheme = "" THEN [scheme |-> "", netloc |-> <<>>, path |-> link.text]
    ELSE [scheme |-> link.scheme,
          netloc |-> Split(link.text)[1],
          path |-> SubSeq(link.text, Len(Split(link.text)[1]) + 1, Len(link.text))]

\* prefix = "/".join([p.strip("/") for p in [base, folder] if p and p.strip("/")])
PrefixOf(base_prefix, folder) ==
    Join(SelectSeq(<<StripEnds(base_prefix), StripEnds(folder)>>, LAMBDA p : p # <<>>))

\* f"{prefix + '/' if prefix else ''}{filename}"
KeyOf(prefix, filename) == IF prefix # <<>> THEN prefix \o <<"/">> \o filename ELSE filename

\* What a call resolves: the bucket / container / host, the folder id
\* (Google Drive, OneDrive), the key or path, and for FTP the directory the
\* object was stored in (a list of names below the server's root).
Address(container, parent, key, stored_in) ==
    [raised |-> "", container |-> container, parent |-> parent, key |-> key,
     stored_in |-> stored_in]
Resolved(container, key) == Address(container, <<>>, key, <<>>)
RaisedError(error) ==
    [raised |-> error, container |-> <<>>, parent |-> <<>>, key |-> <<>>,
     stored_in |-> <<>>]
InvalidLocator == RaisedError("ValueError")

\* s3 / gcs / b2 _parse_bucket_and_key: 'scheme://bucket[/prefix]' or a raw
\* 'bucket[/prefix]'.
BucketModules == {"s3", "gcs", "b2"}
UrlModules == {"s3_compatible", "azure_blob"}
OwnScheme(m) == CASE m = "s3" -> "s3" [] m = "gcs" -> "gs" [] m = "b2" -> "b2"
                  [] m = "ftp_client" -> "ftp" [] m = "gdrive" -> "drive" [] OTHER -> "https"

_parse_bucket_and_key(m, link, folder, filename) ==
    LET parsed == urlparse(link)
        bucket == IF parsed.scheme = OwnScheme(m) THEN parsed.netloc
                  ELSE Split(link.text)[1]
        base_prefix == IF parsed.scheme = OwnScheme(m) THEN LStrip(parsed.path)
                       ELSE Join(Tail(Split(link.text)))
    IN  Resolved(bucket, KeyOf(PrefixOf(base_prefix, folder), filename))

\* path.lstrip("/").split("/", 1)
SplitOnce(str) ==
    IF HasSlash(str)
    THEN <<SubSeq(str, 1, FirstSlash(str) - 1), SubSeq(str, FirstSlash(str) + 1, Len(str))>>
    ELSE <<str>>

\* s3_compatible._parse_endpoint_bucket_key: 'http(s)://endpoint/bucket[/prefix]'
_parse_endpoint_bucket_key(link, folder, filename) ==
    LET parsed == urlparse(link)
        path_parts == SplitOnce(LStrip(parsed.path))
        base_prefix == IF Len(path_parts) > 1 THEN path_parts[2] ELSE <<>>
    IN  IF parsed.scheme \notin {"http", "https"} THEN InvalidLocator
        ELSE Resolved(path_parts[1], KeyOf(PrefixOf(base_prefix, folder), filename))

\* azure_blob._parse_container_and_blob: an account URL, or a raw
\* 'container[/prefix]'.
_parse_container_and_blob(link, folder, filename) ==
    LET parsed == urlparse(link)
        path_parts == SplitOnce(LStrip(parsed.path))
        isUrl == parsed.scheme \in {"http", "https"}
        container == IF isUrl THEN path_parts[1] ELSE Split(link.text)[1]
        base_prefix == IF isUrl THEN (IF Len(path_parts) > 1 THEN path_parts[2] ELSE <<>>)
                       ELSE Join(Tail(Split(link.text)))
    IN  Resolved(container, KeyOf(PrefixOf(base_prefix, folder), filename))

\* dropbox_client._resolve_path / onedrive._build_path: '/prefix/filename'.
_resolve_path(link, folder, filename) ==
    LET parsed == urlparse(link)
        base_path == IF parsed.scheme # "" THEN parsed.path
                     ELSE link.text
    IN  Resolved(<<>>, <<"/">> \o KeyOf(PrefixOf(base_path, folder), filename))


\* ftp_client._parse_ftp: the host and the prefix, or the invalid-locator
\* error.
_parse_ftp(link, folder) ==
    LET parsed == urlparse(link)
        base_path == IF parsed.path # <<>> THEN parsed.path ELSE <<"/">>
    IN  IF parsed.scheme # "ftp" THEN InvalidLocator
        ELSE Resolved(parsed.netloc, PrefixOf(base_path, folder))

\* [p for p in path.strip("/").split("/") if p]
Segments(path) == SelectSeq(Split(StripEnds(path)), LAMBDA p : p # <<>>)

\* The loop of _ensure_and_cd (create = TRUE) and of _cd_only: from
\* directory cwd, per segment mkd (errors ignored) and cwd, which fails on
\* a directory that does not exist.
RECURSIVE Walk(_, _, _, _)
Walk(cwd, dirs, segments, create) ==
    IF segments = <<>> THEN [ok |-> TRUE, cwd |-> cwd, dirs |-> dirs, cmds |-> <<>>]
    ELSE LET next == Append(cwd, Head(segments))
             made == IF create THEN dirs \cup {next} ELSE dirs
             rest == Walk(next, made, Tail(segments), create)
             here == IF create THEN <<"mkd", "cwd">> ELSE <<"cwd">>
         IN  IF next \notin made
             THEN [ok |-> FALSE, cwd |-> cwd, dirs |-> made, cmds |-> here]
             ELSE [ok |-> rest.ok, cwd |-> rest.cwd, dirs |-> rest.dirs,
                   cmds |-> here \o rest.cmds]

\* Where the walk starts: nowhere new for an empty path; else the root,
\* or the login directory when the server refuses cwd("/").
WalkStartAlwaysRoot(server, path) == <<>>
WalkStart(server, path) ==
    IF path = <<>> \/ ~server.root_allowed THEN server.login_dir ELSE <<>>

\* _ensure_and_cd(ftp, path) / _cd_only(ftp, path) after login.
ChangeDir(server, path, create) ==
    LET walk == Walk(WalkStart(server, path), server.dirs, Segments(path), create)
    IN  IF path = <<>>
        THEN [ok |-> TRUE, cwd |-> server.login_dir, dirs |-> server.dirs, cmds |-> <<>>]
        ELSE [ok |-> walk.ok, cwd |-> walk.cwd, dirs |-> walk.dirs,
              cmds |-> <<"cwd /">> \o walk.cmds]

\* _retr_with_fallbacks: the candidates tried in order, as absolute
\* locations (directory, name); the first that is a file is read.
Candidates(cwd, prefix, name) ==
    <<[dir |-> cwd, name |-> name],
      [dir |-> cwd \o Segments(prefix), name |-> name],
      [dir |-> <<>>, name |-> name],
      [dir |-> Segments(prefix), name |-> name]>>

\* --- Google Drive / OneDrive folders
RootId == <<"root">>
NewId(tree) == <<"id", ToString(Cardinality(tree) + 1)>>

\* gdrive._resolve_parent_id_from_path: the outcomes [tree, parent] of
\* walking parts below parent; a search returns the folders of that name in
\* the parent and files[0] is any of them.  onedrive
\* ._ensure_onedrive_parent_id matches any child of that name.
MatchesAlwaysNone(m, tree, parent, part) == {}
Matches(m, tree, parent, part) ==
    {i \in tree : /\ i.parent = parent /\ i.name = part
                   /\ (m = "gdrive" => i.folder)}

RECURSIVE ResolveParent(_, _, _, _)
ResolveParent(m, tree, parent, parts) ==
    IF parts = <<>> THEN {[tree |-> tree, parent |-> parent]}
    ELSE IF Matches(m, tree, parent, Head(parts)) # {}
    THEN UNION {ResolveParent(m, tree, i.id, Tail(parts)) :
                   i \in Matches(m, tree, parent, Head(parts))}
    ELSE ResolveParent(m,
                       tree \cup {[id |-> NewId(tree), name |-> Head(parts),
                                    parent |-> parent, folder |-> TRUE]},
                       NewId(tree), Tail(parts))

\* gdrive._extract_drive_folder_id_and_path for 'drive://<id>[/path]' and
\* plain paths: the folder id to start from and the base path.
BaseParent(m, link) ==
    IF m = "gdrive" /\ link.scheme = "drive" /\ urlparse(link).netloc # <<>>
    THEN urlparse(link).netloc ELSE RootId
BasePath(m, link) ==
    IF link.scheme # "" THEN urlparse(link).path ELSE link.text

\* The file an upload leaves in the folder: Google Drive creates an item
\* each time, OneDrive replaces the item of that name.
WithFile(m, tree, parent, filename) ==
    IF m = "onedrive" /\ \E i \in tree : i.parent = parent /\ i.name = filename
    THEN tree
    ELSE tree \cup {[id |-> NewId(tree), name |-> filename, parent |-> parent,
                      folder |-> FALSE]}

\* --- the inputs
LocatorTexts ==
    {<<>>, <<"my-bucket">>, <<"my-bucket", "/">>, <<"my-bucket", "/", "outputs">>,
     <<"my-bucket", "/", "outputs", "/">>, <<"my-bucket", "/", "/", "outputs">>,
     <<"/", "outputs">>}
Host == <<"host">>
Schemes(m) ==
    CASE m \in BucketModules -> {OwnScheme(m), ""}
      [] m = "s3_compatible" -> {"https", "http", "s3", ""}
      [] m = "azure_blob" -> {"https", ""}
      [] m = "ftp_client" -> {"ftp", "http", ""}
      [] m = "gdrive" -> {"drive", ""}
      [] OTHER -> {""}
\* A URL or FTP link names the host before the path.
Locators(m) ==
    {[scheme |-> sch,
      text |-> IF sch \in {"https", "http", "ftp"} THEN Host \o t ELSE t] :
        sch \in Schemes(m), t \in LocatorTexts}
FolderPaths == Texts({"/", "2024"}, MaxFolderLen)
ObjectName == <<"img.png">>

PathModules == {"dropbox_client"}
DriveModules == {"gdrive", "onedrive"}
ConnectModules == {"ftp_client", "s3_compatible"}
AddressModules == BucketModules \cup {"azure_blob"} \cup PathModules \cup DriveModules \cup ConnectModules
Operations == {"upload", "upload_many", "download", "download_many"}

\* FTP servers: the directory a login starts in, and whether cwd("/") is
\* allowed.
Servers ==
    {[login_dir |-> d, root_allowed |-> r, dirs |-> {}, files |-> {}] :
        d \in {<<>>, <<<<"home">>>>}, r \in BOOLEAN}

InitAddress ==
    /\ BatchInit /\ RoundTripIdle /\ LogIdle /\ CredIdle /\ LaterIdle
    /\ backend \in AddressModules
    /\ bucket_link \in Locators(backend)
    /\ cloud_folder_path \in FolderPaths
    /\ object_name = ObjectName
    /\ ftp_server \in IF backend = "ftp_client" THEN Servers ELSE {NoServer}
    /\ NoCalls

\* The address resolution of a bucket/key or path adapter's operation.
ResolveAddress ==
    /\ backend \in BucketModules \cup {"azure_blob"} \cup PathModules
    /\ Len(addresses) < MaxCalls
    /\ operation' = "upload"
    /\ addresses' =
          Append(addresses,
                 CASE backend \in BucketModules ->
                         _parse_bucket_and_key(backend, bucket_link, cloud_folder_path, object_name)
                   [] backend = "azure_blob" ->
                         _parse_container_and_blob(bucket_link, cloud_folder_path, object_name)
                   [] OTHER -> _resolve_path(bucket_link, cloud_folder_path, object_name))
    /\ UNCHANGED <<backend, bucket_link, cloud_folder_path, object_name, drive,
                   ftp_server, conn_trace, outsideAddr>>

\* Uploader.upload of gdrive / onedrive: resolve the folder, creating what
\* is missing, and store the file in it.
DriveUpload ==
    /\ backend \in DriveModules
    /\ Len(addresses) < MaxCalls
    /\ operation' = "upload"
    /\ \E out \in ResolveParent(backend, drive, BaseParent(backend, bucket_link),
                                Segments(PrefixOf(BasePath(backend, bucket_link),
                                                  cloud_folder_path))) :
          /\ addresses' = Append(addresses, Address(<<>>, out.parent, object_name, <<>>))
          /\ drive' = WithFile(backend, out.tree, out.parent, object_name)
    /\ UNCHANGED <<backend, bucket_link, cloud_folder_path, object_name,
                   ftp_server, conn_trace, outsideAddr>>

\* The order of the first steps of an operation: the locator is parsed
\* before anything is opened.
FirstStepsConnectFirst(parsed, rest) == rest
FirstSteps(parsed, rest) == IF parsed.raised # "" THEN <<>> ELSE rest

\* ftp_client.Uploader.upload / upload_many / download / download_many.
FtpCall(oper, ok) ==
    /\ backend = "ftp_client"
    /\ Len(addresses) < MaxCalls
    /\ operation' = oper
    /\ LET parsed == _parse_ftp(bucket_link, cloud_folder_path)
           prefix == parsed.key
           cd == ChangeDir(ftp_server, prefix, oper \in {"upload", "upload_many"})
           found == {n \in 1 .. 4 :
                        [dir |-> Candidates(cd.cwd, prefix, object_name)[n].dir,
                         name |-> object_name] \in ftp_server.files}
           opened == <<"connect", "login">> \o cd.cmds
       IN  IF parsed.raised # ""
           THEN /\ addresses' = Append(addresses, parsed)
                /\ conn_trace' = FirstSteps(parsed, opened)
                /\ ftp_server' = ftp_server
           ELSE IF oper \in {"upload", "upload_many"}
           THEN /\ conn_trace' = FirstSteps(parsed, opened \o (IF cd.ok THEN <<"stor">> ELSE <<>>))
                /\ ftp_server' =
                      [ftp_server EXCEPT
                          !.dirs = cd.dirs,
                          !.files = IF cd.ok /\ ok
                                    THEN @ \cup {[dir |-> cd.cwd, name |-> object_name]}
                                    ELSE @]
                /\ addresses' =
                      Append(addresses,
                             IF cd.ok /\ ok
                             THEN Address(parsed.container, <<>>,
                                          <<"/">> \o KeyOf(prefix, object_name), cd.cwd)
                             ELSE RaisedError("error_perm"))
           ELSE /\ conn_trace' = FirstSteps(parsed, opened \o (IF cd.ok THEN <<"retr">> ELSE <<>>))
                /\ ftp_server' = ftp_server
                /\ addresses' =
                      Append(addresses,
                             IF cd.ok /\ ok /\ found # {}
                             THEN Address(parsed.container, <<>>,
                                          <<"/">> \o KeyOf(prefix, object_name),
                                          Candidates(cd.cwd, prefix, object_name)
                                             [CHOOSE n \in found : \A k \in found : n <= k].dir)
                             ELSE RaisedError("error_perm"))
    /\ UNCHANGED <<backend, bucket_link, cloud_folder_path, object_name, drive, outsideAddr>>

\* s3_compatible.Uploader.upload / upload_many / download / download_many.
S3CompatibleCall(oper, ok) ==
    /\ backend = "s3_compatible"
    /\ Len(addresses) < MaxCalls
    /\ operation' = oper
    /\ LET parsed == _parse_endpoint_bucket_key(bucket_link, cloud_folder_path, object_name)
           request == IF oper \in {"upload", "upload_many"} THEN "put_object" ELSE "get_object"
       IN  /\ conn_trace' = FirstSteps(parsed, <<"create_client", request>>)
           /\ addresses' =
                 Append(addresses,
                        IF parsed.raised # "" \/ ok THEN parsed ELSE RaisedError("ClientError"))
    /\ UNCHANGED <<backend, bucket_link, cloud_folder_path, object_name, drive,
                   ftp_server, outsideAddr>>

NextAddress ==
    \/ ResolveAddress
    \/ DriveUpload
    \/ \E oper \in Operations, ok \in BOOLEAN : FtpCall(oper, ok)
    \/ \E oper \in Operations, ok \in BOOLEAN : S3CompatibleCall(oper, ok)

SpecAddress == InitAddress /\ [][NextAddress]_vars

\* ============================================= folder creation, FTP sessions
\* The part of an upload or download call before and around the transfers:
\* dropbox files_create_folder_v2 per segment, azure create_container, FTP
\* connect / login / cwd / mkd / STOR / RETR inside "with FTP() as ftp", and
\* the search-then-create walk of onedrive and gdrive.  The folder path is
\* modelled by its number of segments, the backend by how many leading
\* segments exist.
MaxSegments == 2
MaxFiles == 2

FolderModules == {"dropbox_client", "azure_blob", "ftp_client", "onedrive", "gdrive"}
WalkModules == {"onedrive", "gdrive"}
Methods(m) == IF m = "ftp_client" THEN Operations ELSE {"upload", "upload_many"}
Depths(m) == IF m = "azure_blob" THEN {1} ELSE 0 .. MaxSegments
BatchSizes(meth) == IF meth \in {"upload", "download"} THEN {1} ELSE 1 .. MaxFiles

Creating == method \in {"upload", "upload_many"}

\* What a create request may answer: the folder is made, it is already
\* there, or the request fails for another reason (permission, quota,
\* network).
CreateOutcomes(exists) == IF exists THEN {"exists", "denied"} ELSE {"created", "denied"}

CreateCommand(m) ==
    CASE m = "dropbox_client" -> "files_create_folder_v2"
      [] m = "azure_blob" -> "create_container"
      [] m = "ftp_client" -> "mkd"
      [] OTHER -> "create_folder"
TransferCommand(m, meth) ==
    IF m # "ftp_client" THEN "upload"
    ELSE IF meth \in {"upload", "upload_many"} THEN "stor" ELSE "retr"

\* "try: <create> except Exception: pass" in dropbox_client, azure_blob and
\* ftp_client; onedrive and gdrive call raise_for_status() on the answer.
IgnoresCreateError(m) == m \in {"dropbox_client", "azure_blob", "ftp_client"}

\* The socket after the with block of ftp_client is left, by return or by
\* an exception: FTP.__exit__ sends QUIT and closes an open socket.
WithFTPClosingOnReturnOnly(s, failed) == IF s = "open" /\ ~failed THEN "closed" ELSE s
WithFTP(s, failed) == IF s = "open" THEN "closed" ELSE s

\* An exception leaves the call; in ftp_client it passes the with block.
Raise(cmd) ==
    /\ raising' = cmd
    /\ step' = IF uploader = "ftp_client" THEN "leave" ELSE "raised"

\* The step after the walk is through with the current segment.
AfterSegment ==
    IF seg = depth THEN "transfer"
    ELSE IF uploader \in WalkModules THEN "find"
    ELSE IF uploader = "ftp_client" /\ ~Creating THEN "enter"
    ELSE "create"
NextSeg == IF seg < depth THEN seg + 1 ELSE seg

InitSession ==
    /\ EarlierIdle /\ HttpIdle /\ AsyncIdle /\ UtIdle /\ SbIdle /\ NamesIdle /\ StatIdle /\ CacheIdle /\ RetrIdle
    /\ uploader \in FolderModules
    /\ method \in Methods(uploader)
    /\ depth \in Depths(uploader)
    /\ present \in 0 .. depth
    /\ batch_size \in BatchSizes(method)
    /\ seg = 1 /\ sent_items = 0 /\ sock = "none" /\ commands = <<>> /\ raising = ""
    /\ step = IF uploader = "ftp_client" THEN "connect"
              ELSE IF depth = 0 THEN "transfer"
              ELSE IF uploader \in WalkModules THEN "find" ELSE "create"

\* ftp.connect(host, port): refused (no socket), or the socket opens and
\* the welcome is an error, or all is well.
Connect(outcome) ==
    /\ step = "connect"
    /\ commands' = Append(commands, <<"connect", outcome>>)
    /\ sock' = IF outcome = "refused" THEN sock ELSE "open"
    /\ IF outcome = "ok" THEN step' = "login" /\ raising' = raising
       ELSE Raise("connect")
    /\ UNCHANGED <<uploader, method, depth, present, seg, batch_size, sent_items>>
    /\ UNCHANGED outsideSess

\* ftp.login(user=user, passwd=password)
Login(ok) ==
    /\ step = "login"
    /\ commands' = Append(commands, <<"login", IF ok THEN "ok" ELSE "error">>)
    /\ IF ok
       THEN /\ step' = IF depth = 0 THEN "transfer" ELSE "cwd_root"
            /\ raising' = raising
       ELSE Raise("login")
    /\ UNCHANGED <<uploader, method, depth, present, seg, batch_size, sent_items, sock>>
    /\ UNCHANGED outsideSess

\* _ensure_and_cd / _cd_only: "try: ftp.cwd('/') except Exception: pass"
CwdRoot(ok) ==
    /\ step = "cwd_root"
    /\ commands' = Append(commands, <<"cwd /", IF ok THEN "ok" ELSE "error">>)
    /\ step' = IF Creating THEN "create" ELSE "enter"
    /\ UNCHANGED <<uploader, method, depth, present, seg, batch_size, sent_items, sock, raising>>
    /\ UNCHANGED outsideSess

\* The create request for the current segment (the container for azure).
Create(outcome) ==
    /\ step = "create"
    /\ outcome \in CreateOutcomes(seg <= present)
    /\ commands' = Append(commands, <<CreateCommand(uploader), outcome>>)
    /\ present' = IF outcome = "created" THEN seg ELSE present
    /\ IF outcome = "denied" /\ ~IgnoresCreateError(uploader)
       THEN Raise(CreateCommand(uploader)) /\ seg' = seg
       ELSE /\ raising' = raising
            /\ IF uploader = "ftp_client"
               THEN step' = "enter" /\ seg' = seg
               ELSE step' = AfterSegment /\ seg' = NextSeg
    /\ UNCHANGED <<uploader, method, depth, batch_size, sent_items, sock>>
    /\ UNCHANGED outsideSess

\* ftp.cwd(segment): fails on a directory that does not exist.
Enter(ok) ==
    /\ step = "enter"
    /\ ok => seg <= present
    /\ commands' = Append(commands, <<"cwd", IF ok THEN "ok" ELSE "error">>)
    /\ IF ok
       THEN step' = AfterSegment /\ seg' = NextSeg /\ raising' = raising
       ELSE Raise("cwd") /\ seg' = seg
    /\ UNCHANGED <<uploader, method, depth, present, batch_size, sent_items, sock>>
    /\ UNCHANGED outsideSess

\* onedrive: GET children and match by name; gdrive: GET files?q=...; both
\* followed by raise_for_status().
Find(outcome) ==
    /\ step = "find"
    /\ outcome \in {IF seg <= present THEN "found" ELSE "missing", "error"}
    /\ commands' = Append(commands, <<"search", outcome>>)
    /\ CASE outcome = "found" -> step' = AfterSegment /\ seg' = NextSeg /\ raising' = raising
         [] outcome = "missing" -> step' = "create" /\ seg' = seg /\ raising' = raising
         [] OTHER -> Raise("search") /\ seg' = seg
    /\ UNCHANGED <<uploader, method, depth, present, batch_size, sent_items, sock>>
    /\ UNCHANGED outsideSess

\* The transfer of the next item: files_upload / upload_blob / PUT / POST /
\* STOR / RETR.  A blob cannot be written to a container that does not
\* exist.
Transfer(ok) ==
    /\ step = "transfer"
    /\ ok /\ uploader = "azure_blob" => present = 1
    /\ commands' = Append(commands, <<TransferCommand(uploader, method),
                                       IF ok THEN "ok" ELSE "error">>)
    /\ IF ok
       THEN /\ sent_items' = sent_items + 1
            /\ raising' = raising
            /\ step' = IF sent_items + 1 < batch_size THEN "transfer"
                       ELSE IF uploader = "ftp_client" THEN "leave" ELSE "returned"
       ELSE Raise(TransferCommand(uploader, method)) /\ sent_items' = sent_items
    /\ UNCHANGED <<uploader, method, depth, present, seg, batch_size, sock>>
    /\ UNCHANGED outsideSess

\* Leaving "with FTP() as ftp": QUIT on an open socket, whose OSError or
\* EOFError is dropped and whose error reply propagates; then close().
Leave(quit) ==
    /\ step = "leave"
    /\ sock = "none" => quit = "ok"
    /\ commands' = IF sock = "open" THEN Append(commands, <<"quit", quit>>) ELSE commands
    /\ sock' = WithFTP(sock, raising # "")
    /\ raising' = IF raising = "" /\ sock = "open" /\ quit = "error_reply" THEN "quit"
                  ELSE raising
    /\ step' = IF raising' # "" THEN "raised" ELSE "returned"
    /\ UNCHANGED <<uploader, method, depth, present, seg, batch_size, sent_items>>
    /\ UNCHANGED outsideSess

NextSession ==
    \/ \E outcome \in {"ok", "refused", "bad_welcome"} : Connect(outcome)
    \/ \E ok \in BOOLEAN : Login(ok)
    \/ \E ok \in BOOLEAN : CwdRoot(ok)
    \/ \E outcome \in {"created", "exists", "denied"} : Create(outcome)
    \/ \E ok \in BOOLEAN : Enter(ok)
    \/ \E outcome \in {"found", "missing", "error"} : Find(outcome)
    \/ \E ok \in BOOLEAN : Transfer(ok)
    \/ \E quit \in {"ok", "oserror", "error_reply"} : Leave(quit)

SpecSession == InitSession /\ [][NextSession]_vars

\* ============================================================ HTTP requests
\* The requests the adapters send themselves, with requests.get / post / put
\* or urlopen, by the place in the code that sends them ("site").  Calls an
\* SDK makes (boto3, dropbox, azure, google-cloud-storage, supabase) are not
\* part of this.
HttpModules == {"dropbox_client", "onedrive", "gdrive", "upload_thing"}

\* The sites whose call passes timeout=...: the token requests
\* (dropbox_client 119, onedrive 75, gdrive 62) and the requests.* calls of
\* upload_thing (142, 146, 160, 166, 178).  No other call names a timeout.
HasTimeout(site) ==
    site \in {"dropbox.token", "onedrive.token", "gdrive.token",
              "ut.presign_v7", "ut.presign_v6", "ut.put", "ut.post", "ut.resolve"}

\* _ut_resolve_urls: "except Exception: continue" around each request.
ErrorsDropped(site) == site = "ut.resolve"

SeqProduct(A, B) == {a \o b : a \in A, b \in B}

\* The sequences of sites one call may pass, by the branches it takes: the
\* token exchange of a JSON credential (resolved twice by onedrive and
\* gdrive), the folder walk, and per item the single or the chunked request.
Plans(m, meth) ==
    LET up == meth \in {"upload", "upload_many"}
        many == meth \in {"upload_many"}
    IN  CASE m = "dropbox_client" -> {<<"dropbox.token">>}
          [] m = "onedrive" ->
                SeqProduct({<<>>, <<"onedrive.token", "onedrive.token">>},
                  IF up
                  THEN SeqProduct({<<"onedrive.root">>,
                                   <<"onedrive.root", "onedrive.children">>,
                                   <<"onedrive.root", "onedrive.children", "onedrive.create">>},
                                  {<<"onedrive.put">>} \cup
                                  (IF many THEN {<<"onedrive.session", "onedrive.chunk">>}
                                   ELSE {}))
                  ELSE {<<"onedrive.get">>})
          [] m = "gdrive" ->
                SeqProduct({<<>>, <<"gdrive.token", "gdrive.token">>},
                  SeqProduct({<<>>, <<"gdrive.search">>, <<"gdrive.search", "gdrive.create">>},
                    IF up
                    THEN {<<"gdrive.multipart">>} \cup
                         (IF many THEN {<<"gdrive.resumable", "gdrive.chunk">>} ELSE {})
                    ELSE {<<"gdrive.search", "gdrive.get">>}))
          [] OTHER ->
                IF up
                THEN SeqProduct({<<"ut.presign_v7">>, <<"ut.presign_v7", "ut.presign_v6">>},
                                {<<>>, <<"ut.put">>, <<"ut.post">>})
                ELSE SeqProduct({<<>>, <<"ut.resolve">>, <<"ut.resolve", "ut.resolve">>},
                                {<<"ut.urlopen">>})

InitRequests ==
    /\ EarlierIdle /\ SessIdle /\ AsyncIdle /\ UtIdle /\ SbIdle /\ NamesIdle /\ StatIdle /\ CacheIdle /\ RetrIdle
    /\ requester \in HttpModules
    /\ api_method \in Operations
    /\ plan \in Plans(requester, api_method)
    /\ in_flight = "" /\ http_log = <<>> /\ call_state = "running"

\* The call reaches its next request and sends it.
Send ==
    /\ call_state = "running" /\ plan # <<>>
    /\ in_flight' = Head(plan)
    /\ http_log' = Append(http_log, [site |-> Head(plan), timeout |-> HasTimeout(Head(plan))])
    /\ call_state' = "waiting"
    /\ UNCHANGED <<requester, api_method, plan>>
    /\ UNCHANGED outsideHttp

\* The backend answers: with success, or with an error status that
\* raise_for_status() turns into an exception.
Answer(ok) ==
    /\ call_state = "waiting"
    /\ call_state' = IF ok \/ ErrorsDropped(in_flight) THEN "running" ELSE "raised"
    /\ plan' = Tail(plan)
    /\ in_flight' = ""
    /\ UNCHANGED <<requester, api_method, http_log>>
    /\ UNCHANGED outsideHttp

\* The backend never answers: a request with a timeout raises when it
\* expires; one without waits for the answer without end.
Silence ==
    /\ call_state = "waiting"
    /\ IF HasTimeout(in_flight)
       THEN /\ call_state' = IF ErrorsDropped(in_flight) THEN "running" ELSE "raised"
            /\ plan' = Tail(plan)
            /\ in_flight' = ""
       ELSE /\ call_state' = "blocked"
            /\ UNCHANGED <<plan, in_flight>>
    /\ UNCHANGED <<requester, api_method, http_log>>
    /\ UNCHANGED outsideHttp

\* No request is left: the call returns.
Finish ==
    /\ call_state = "running" /\ plan = <<>>
    /\ call_state' = "returned"
    /\ UNCHANGED <<requester, api_method, plan, in_flight, http_log>>
    /\ UNCHANGED outsideHttp

NextRequests ==
    \/ Send
    \/ \E ok \in BOOLEAN : Answer(ok)
    \/ Silence
    \/ Finish

SpecRequests == InitRequests /\ [][NextRequests]_vars

\* ============================================================== _run_async
\* upload_thing._run_async(coro), called from a thread that does or does not
\* run an event loop.  The coroutine is self-contained: it passes a number
\* of awaits, each completed by the loop that runs it, and ends by returning
\* a value or by raising.
MaxAwaits == 3

Coroutines ==
    {[awaits |-> n, ends |-> e, result |-> v] :
        n \in 0 .. MaxAwaits, e \in {"return", "raise"}, v \in {"v1", "None"}}

\* try: asyncio.get_running_loop() / except RuntimeError: the branch taken.
ModeAlwaysInline(running) == "inline"
Mode(running) == IF running THEN "thread" ELSE "inline"

\* result.get("value")
Get(d) == IF d = <<>> THEN "None" ELSE d[1]

InitAsync ==
    /\ EarlierIdle /\ SessIdle /\ HttpIdle /\ UtIdle /\ SbIdle /\ NamesIdle /\ StatIdle /\ CacheIdle /\ RetrIdle
    /\ running_loop \in BOOLEAN
    /\ coro \in Coroutines
    /\ coro_pos = 0 /\ ran_on = {} /\ result = <<>>
    /\ caller_pc = "get_running_loop" /\ thread_pc = "none" /\ returned_value = ""

GetRunningLoop ==
    /\ caller_pc = "get_running_loop"
    /\ caller_pc' = IF Mode(running_loop) = "inline" THEN "asyncio.run" ELSE "start"
    /\ UNCHANGED <<running_loop, coro, coro_pos, ran_on, result, thread_pc, returned_value>>
    /\ UNCHANGED outsideAsync

\* asyncio.run(coro) refuses to start in a thread whose loop is running;
\* otherwise it makes a loop and runs the coroutine in the calling thread.
RunEnter ==
    /\ caller_pc = "asyncio.run"
    /\ caller_pc' = IF running_loop THEN "raised" ELSE "inline"
    /\ UNCHANGED <<running_loop, coro, coro_pos, ran_on, result, thread_pc, returned_value>>
    /\ UNCHANGED outsideAsync

RunStep ==
    /\ caller_pc = "inline" /\ coro_pos < coro.awaits
    /\ coro_pos' = coro_pos + 1
    /\ ran_on' = ran_on \cup {"asyncio.run"}
    /\ UNCHANGED <<running_loop, coro, result, caller_pc, thread_pc, returned_value>>
    /\ UNCHANGED outsideAsync

\* return asyncio.run(coro)
RunEnd ==
    /\ caller_pc = "inline" /\ coro_pos = coro.awaits
    /\ ran_on' = ran_on \cup {"asyncio.run"}
    /\ IF coro.ends = "return"
       THEN caller_pc' = "returned" /\ returned_value' = coro.result
       ELSE caller_pc' = "raised" /\ returned_value' = returned_value
    /\ UNCHANGED <<running_loop, coro, coro_pos, result, thread_pc>>
    /\ UNCHANGED outsideAsync

\* t = threading.Thread(target=_target, daemon=True); t.start()
Start ==
    /\ caller_pc = "start"
    /\ thread_pc' = "new_event_loop"
    /\ caller_pc' = "join"
    /\ UNCHANGED <<running_loop, coro, coro_pos, ran_on, result, returned_value>>
    /\ UNCHANGED outsideAsync

\* loop = asyncio.new_event_loop(); asyncio.set_event_loop(loop)
TargetNewLoop ==
    /\ thread_pc = "new_event_loop"
    /\ thread_pc' = "run_until_complete"
    /\ UNCHANGED <<running_loop, coro, coro_pos, ran_on, result, caller_pc, returned_value>>
    /\ UNCHANGED outsideAsync

TargetStep ==
    /\ thread_pc = "run_until_complete" /\ coro_pos < coro.awaits
    /\ coro_pos' = coro_pos + 1
    /\ ran_on' = ran_on \cup {"new_event_loop"}
    /\ UNCHANGED <<running_loop, coro, result, caller_pc, thread_pc, returned_value>>
    /\ UNCHANGED outsideAsync

\* result["value"] = loop.run_until_complete(coro); an exception of the
\* coroutine skips the assignment and passes the finally clause.
TargetEnd ==
    /\ thread_pc = "run_until_complete" /\ coro_pos = coro.awaits
    /\ ran_on' = ran_on \cup {"new_event_loop"}
    /\ result' = IF coro.ends = "return" THEN <<coro.result>> ELSE result
    /\ thread_pc' = "close"
    /\ UNCHANGED <<running_loop, coro, coro_pos, caller_pc, returned_value>>
    /\ UNCHANGED outsideAsync

\* finally: loop.close(); the thread ends.
TargetClose ==
    /\ thread_pc = "close"
    /\ thread_pc' = "ended"
    /\ UNCHANGED <<running_loop, coro, coro_pos, ran_on, result, caller_pc, returned_value>>
    /\ UNCHANGED outsideAsync

\* t.join(); return result.get("value")
JoinThread ==
    /\ caller_pc = "join" /\ thread_pc = "ended"
    /\ caller_pc' = "returned"
    /\ returned_value' = Get(result)
    /\ UNCHANGED <<running_loop, coro, coro_pos, ran_on, result, thread_pc>>
    /\ UNCHANGED outsideAsync

NextAsync ==
    \/ GetRunningLoop
    \/ RunEnter
    \/ RunStep
    \/ RunEnd
    \/ Start
    \/ TargetNewLoop
    \/ TargetStep
    \/ TargetEnd
    \/ TargetClose
    \/ JoinThread

SpecAsync == InitAsync /\ [][NextAsync]_vars

\* ================================================= upload_thing: presign
\* upload_thing.Uploader.upload_many at the level of its requests:
\* _ut_presign for the whole batch, then per item _ut_put or
\* _ut_post_multipart to the entry of the presign response at its position.
Statuses == {200, 404, 500}

\* An entry of the presign response for position j: its uploadUrl, its url
\* and whether it has fields; <<>> for a URL that is absent.
Entry(shape, j) ==
    [uploadUrl |-> IF shape \in {"put", "both"} THEN <<"uploadUrl", j>> ELSE <<>>,
     url |-> IF shape \in {"post", "both", "url_only"} THEN <<"url", j>> ELSE <<>>,
     fields |-> shape \in {"post", "both"}]
NoTarget == Entry("none", 0)
Shapes == {"put", "post", "both", "url_only", "none"}

\* The lists a presign answer may hold for n files: an entry per position,
\* for the first k positions.
EntryLists(n) ==
    UNION {{[j \in 1 .. k |-> Entry(f[j], j)] : f \in [1 .. k -> Shapes]} : k \in 0 .. n}

\* presigned[idx] if idx < len(presigned) and isinstance(presigned[idx], dict) else {}
TargetAtFirst(list, i) == IF list # <<>> THEN list[1] ELSE NoTarget
TargetAt(list, i) == IF i < Len(list) THEN list[i + 1] ELSE NoTarget

\* The request an item's entry leads to: PUT to uploadUrl, else multipart
\* POST to url when there are fields, else none.
RequestFor(item, i) ==
    IF item.uploadUrl # <<>> THEN <<[verb |-> "PUT", to |-> item.uploadUrl, index |-> i]>>
    ELSE IF item.url # <<>> /\ item.fields
    THEN <<[verb |-> "POST", to |-> item.url, index |-> i]>>
    ELSE <<>>

PresignRequest(version, n, status) ==
    [verb |-> "presign", to |-> <<version, n>>, index |-> status]

InitPresign ==
    /\ EarlierIdle /\ SessIdle /\ HttpIdle /\ AsyncIdle /\ SbIdle /\ NamesIdle /\ StatIdle /\ CacheIdle /\ RetrIdle
    /\ ut_files \in 1 .. MaxFiles
    /\ ut_status = 0 /\ ut_presigned = <<>> /\ ut_idx = 0 /\ ut_requests = <<>>
    /\ ut_pc = "presign_v7"

\* resp = requests.post(".../v7/uploadFiles", ...); a 404 leads to v6.
PresignV7(status) ==
    /\ ut_pc = "presign_v7"
    /\ ut_requests' = Append(ut_requests, PresignRequest("v7", ut_files, status))
    /\ ut_status' = status
    /\ ut_pc' = IF status = 404 THEN "presign_v6" ELSE "raise_for_status"
    /\ UNCHANGED <<ut_files, ut_presigned, ut_idx>>
    /\ UNCHANGED outsideUt

\* resp = requests.post(".../v6/uploadFiles", ...)
PresignV6(status) ==
    /\ ut_pc = "presign_v6"
    /\ ut_requests' = Append(ut_requests, PresignRequest("v6", ut_files, status))
    /\ ut_status' = status
    /\ ut_pc' = "raise_for_status"
    /\ UNCHANGED <<ut_files, ut_presigned, ut_idx>>
    /\ UNCHANGED outsideUt

\* resp.raise_for_status(); the body's list, or RuntimeError when it has
\* none.
PresignResult(isList) ==
    /\ ut_pc = "raise_for_status"
    /\ IF ut_status # 200 \/ ~isList
       THEN ut_pc' = "raised" /\ ut_presigned' = ut_presigned
       ELSE /\ ut_pc' = "item"
            /\ ut_presigned' \in EntryLists(ut_files)
    /\ UNCHANGED <<ut_files, ut_status, ut_idx, ut_requests>>
    /\ UNCHANGED outsideUt

\* One pass of "for idx, it in enumerate(items)": the request for the
\* item, if its entry names a target, and results.append(...).
SendItem(ok) ==
    /\ ut_pc = "item" /\ ut_idx < ut_files
    /\ ~ok => RequestFor(TargetAt(ut_presigned, ut_idx), ut_idx) # <<>>
    /\ ut_requests' = ut_requests \o RequestFor(TargetAt(ut_presigned, ut_idx), ut_idx)
    /\ IF ok THEN ut_idx' = ut_idx + 1 /\ ut_pc' = ut_pc
       ELSE ut_idx' = ut_idx /\ ut_pc' = "raised"
    /\ UNCHANGED <<ut_files, ut_status, ut_presigned>>
    /\ UNCHANGED outsideUt

\* return results
ReturnResults ==
    /\ ut_pc = "item" /\ ut_idx = ut_files
    /\ ut_pc' = "returned"
    /\ UNCHANGED <<ut_files, ut_status, ut_presigned, ut_idx, ut_requests>>
    /\ UNCHANGED outsideUt

NextPresign ==
    \/ \E status \in Statuses : PresignV7(status)
    \/ \E status \in Statuses : PresignV6(status)
    \/ \E isList \in BOOLEAN : PresignResult(isList)
    \/ \E ok \in BOOLEAN : SendItem(ok)
    \/ ReturnResults

SpecPresign == InitPresign /\ [][NextPresign]_vars

\* ======================================================= supabase_storage
\* supabase_storage.Uploader: the request per item and the except clause
\* around it.  An error text is a sequence of words.
Roles == {"anon", "authenticated", "service_role", "None"}

ApiMessages ==
    {<<"new row violates", "row-level security", "policy">>,
     <<"new row violates", "Row-Level Security", "policy">>,
     <<"row level security">>,
     <<"Bucket not found">>}

\* msg.lower(), word by word.
LowerWord(w) ==
    CASE w = "Row-Level Security" -> "row-level security"
      [] w = "Bucket not found" -> "bucket not found"
      [] OTHER -> w

\* "row-level security" in msg.lower()
MentionsRlsExactCase(msg) == \E i \in DOMAIN msg : msg[i] = "row-level security"
MentionsRls(msg) == \E i \in DOMAIN msg : LowerWord(msg[i]) = "row-level security"

\* What a storage request may end with: success, a StorageApiError of the
\* backend, or an error below the API (connection).
Answers ==
    {[class |-> "ok", msg |-> <<>>]}
    \cup {[class |-> "StorageApiError", msg |-> m] : m \in ApiMessages}
    \cup {[class |-> "ConnectError", msg |-> <<"connection refused">>]}

Hint(meth) == IF meth \in {"upload", "upload_many"} THEN "INSERT policy" ELSE "SELECT policy"

\* except StorageApiError as e: ... raise PermissionError(...) from e / raise
Reraise(e, r, meth) ==
    IF e.class = "StorageApiError" /\ MentionsRls(e.msg) /\ r # "service_role"
    THEN [class |-> "PermissionError", msg |-> <<"blocked by RLS">>, hint |-> Hint(meth),
          cause |-> <<e>>]
    ELSE [class |-> e.class, msg |-> e.msg, hint |-> "", cause |-> <<>>]

InitSupabase ==
    /\ EarlierIdle /\ SessIdle /\ HttpIdle /\ AsyncIdle /\ UtIdle /\ NamesIdle /\ StatIdle /\ CacheIdle /\ RetrIdle
    /\ sb_method \in Operations
    /\ role \in Roles
    /\ sb_items \in BatchSizes(sb_method)
    /\ sb_idx = 0 /\ sb_answers = <<>> /\ sb_raised = NoError /\ sb_pc = "item"

\* client.storage.from_(bucket).upload(...) / .download(path) for the item
\* at sb_idx.
StorageRequest(answer) ==
    /\ sb_pc = "item" /\ sb_idx < sb_items
    /\ sb_answers' = Append(sb_answers, answer)
    /\ IF answer.class = "ok"
       THEN sb_idx' = sb_idx + 1 /\ sb_pc' = sb_pc /\ sb_raised' = sb_raised
       ELSE /\ sb_idx' = sb_idx /\ sb_pc' = "raised"
            /\ sb_raised' = Reraise(answer, role, sb_method)
    /\ UNCHANGED <<sb_method, role, sb_items>>
    /\ UNCHANGED outsideSb

StorageReturn ==
    /\ sb_pc = "item" /\ sb_idx = sb_items
    /\ sb_pc' = "returned"
    /\ UNCHANGED <<sb_method, role, sb_items, sb_idx, sb_answers, sb_raised>>
    /\ UNCHANGED outsideSb

NextSupabase ==
    \/ \E answer \in Answers : StorageRequest(answer)
    \/ StorageReturn

SpecSupabase == InitSupabase /\ [][NextSupabase]_vars

\* ============================================================ filenames
\* utils.py sanitize_filename and the filename choice of the three save nodes
\* (save_image_extended.py 206-236, save_audio_extended.py 234-262,
\* save_video_extended.py 333-351).  A name is a sequence of characters; the
\* characters that matter are the two separators, the dot, NUL, the blank and
\* ordinary letters.  os.path is posixpath or ntpath, depending on the platform.
MaxNameLen == 3
MaxBatch == 3
NameLimit == 255
Platforms == {"posix", "nt"}
NameChars == {"/", "\\", ".", "NUL", " ", "a"}
Seps == {"/", "\\"}

\* str.strip(): leading and trailing whitespace removed.
RECURSIVE LStripBlanks(_)
LStripBlanks(s) == IF s # <<>> /\ Head(s) = " " THEN LStripBlanks(Tail(s)) ELSE s
RECURSIVE RStripBlanks(_)
RStripBlanks(s) ==
    IF s # <<>> /\ s[Len(s)] = " " THEN RStripBlanks(SubSeq(s, 1, Len(s) - 1)) ELSE s
Strip(s) == RStripBlanks(LStripBlanks(s))

\* str.find(sep, start) over a set of separators; 0 when there is none.
FindSep(s, seps, start) ==
    LET hits == {i \in start..Len(s) : s[i] \in seps}
    IN  IF hits = {} THEN 0 ELSE CHOOSE i \in hits : \A j \in hits : i <= j
\* str.rfind over a set of separators; 0 when there is none.
RFindSep(s, seps) ==
    LET hits == {i \in 1..Len(s) : s[i] \in seps}
    IN  IF hits = {} THEN 0 ELSE CHOOSE i \in hits : \A j \in hits : j <= i

\* ntpath.splitdrive(p)[1]: a UNC prefix (two separators, host, share) is the
\* drive and is not part of the path.  Drive letters need a colon, which is
\* not among NameChars.
NtPath(p) ==
    IF Len(p) >= 2 /\ p[1] \in Seps /\ p[2] \in Seps
    THEN LET index == FindSep(p, Seps, 3)
             index2 == IF index = 0 THEN 0 ELSE FindSep(p, Seps, index + 1)
         IN  IF index2 = 0 THEN <<>> ELSE SubSeq(p, index2, Len(p))
    ELSE p

\* os.path.basename: posixpath splits on "/" only, ntpath on both separators
\* after the drive.
Basename(p, plat) ==
    LET path == IF plat = "nt" THEN NtPath(p) ELSE p
        seps == IF plat = "nt" THEN Seps ELSE {"/"}
    IN  SubSeq(path, RFindSep(path, seps) + 1, Len(path))

\* str.replace(c, "") for each c of a set.
Remove(s, chars) == SelectSeq(s, LAMBDA c : c \notin chars)

\* os.path.isabs of a name: it starts with a separator of the platform.
IsAbs(s, plat) ==
    /\ s # <<>>
    /\ Head(s) \in (IF plat = "nt" THEN Seps ELSE {"/"})

\* utils.py sanitize_filename.
sanitize_filename(filename, plat) ==
    IF filename = <<>> THEN None
    ELSE LET cleaned == Strip(filename)
             basename == Basename(cleaned, plat)
             removed == Remove(basename, {"/", "\\", "NUL"})
         IN  IF cleaned = <<>> THEN None
             ELSE IF basename = <<>> \/ basename = <<".">> \/ basename = <<".", ".">> THEN None
             ELSE IF removed = <<>> THEN None
             ELSE IF IsAbs(removed, plat) THEN None
             ELSE [none |-> FALSE,
                   name |-> IF Len(removed) > NameLimit
                            THEN SubSeq(removed, 1, NameLimit) ELSE removed]

\* os.path.splitext: the extension starts at the last dot of the name, unless
\* only dots precede it.
Splitext(p) ==
    LET dots == {i \in 1..Len(p) : p[i] = "."}
        last == IF dots = {} THEN 0 ELSE CHOOSE i \in dots : \A j \in dots : j <= i
    IN  IF last = 0 \/ \A j \in 1..last : p[j] = "."
        THEN [root |-> p, ext |-> <<>>]
        ELSE [root |-> SubSeq(p, 1, last - 1), ext |-> SubSeq(p, last, Len(p))]

\* f"{batch_number:03d}": decimal digits, zero-padded to at least three.
Digits(n) ==
    LET RECURSIVE D(_)
        D(k) == IF k < 10 THEN <<ToString(k)>> ELSE D(k \div 10) \o <<ToString(k % 10)>>
    IN  D(n)
Pad3Unpadded(n) == Digits(n)
Pad3(n) ==
    LET d == Digits(n)
    IN  [i \in 1..(3 - Len(d)) |-> "0"] \o d

\* process_date_variables and process_node_field_tokens: a %date:yyyy% token
\* becomes the year; other text is kept.
Process(text) == [i \in DOMAIN text |-> IF text[i] = "%date:yyyy%" THEN "2026" ELSE text[i]]

SaveNodes == {"image", "audio", "video"}
\* The format of each node's output, without the dot.
Format(node) == CASE node = "image" -> "png" [] node = "audio" -> "wav" [] node = "video" -> "mp4"
\* Video saves one file per invocation; image and audio one per batch item.
Totals(node) == IF node = "video" THEN {1} ELSE 1..MaxBatch

\* custom_filename as the node uses it: the image node sanitizes it, the audio
\* and video nodes strip it and expand its tokens.
Custom(node, custom, plat) ==
    IF node = "image" THEN sanitize_filename(custom, plat)
    ELSE IF Strip(custom) = <<>> THEN None
    ELSE [none |-> FALSE, name |-> Process(Strip(custom))]

\* Which input names the output: the if / elif / else of the three nodes.
SourceCustomFirst(sanitized, custom) ==
    IF ~custom.none THEN "custom_filename"
    ELSE IF ~sanitized.none THEN "filename" ELSE "uuid"
Source(sanitized, custom) ==
    IF ~sanitized.none THEN "filename"
    ELSE IF ~custom.none THEN "custom_filename" ELSE "uuid"

\* uuid4(): a fresh token per file.
Uuid(i) == "uuid" \o ToString(i)
base_filename == <<"ComfyUI">>

\* The name of the file with batch_number i of n.
FileName(node, sanitized, custom, n, i) ==
    LET suffix == IF n > 1 THEN <<"_">> \o Pad3(i) ELSE <<>>
        split == Splitext(sanitized.name)
        ext == IF split.ext = <<>> THEN <<".", Format(node)>> ELSE split.ext
        src == Source(sanitized, custom)
    IN  CASE src = "filename" -> split.root \o suffix \o ext
          [] src = "custom_filename" -> custom.name \o suffix \o <<".", Format(node)>>
          [] src = "uuid" -> base_filename \o <<"-", Uuid(i)>> \o <<".", Format(node)>>

\* The inputs: every name of up to MaxNameLen characters, the two examples of
\* the docstring, names with an extension, and one longer than NameLimit.
LongName == [i \in 1..(NameLimit + 2) |-> "a"]
NameInputs ==
    Texts(NameChars, MaxNameLen) \cup
    { <<".", ".", "/", ".", ".", "/", ".", ".", "/", "etc", "/", "passwd">>,
      <<".", ".", "\\", "windows", "\\", "system32">>,
      <<"my_custom_audio", ".", "wav">>, <<"batch_audio", ".", "wav">>,
      <<"priority_filename">>, <<"a", ".", ".", "b", ".", "png">>,
      LongName }
CustomInputs ==
    { <<>>, <<" ">>, <<"c">>, <<" ", "c", " ">>, <<"c", "_", "%date:yyyy%">>,
      <<".", ".", "/", "c">> }

InitNames ==
    /\ EarlierIdle /\ SessIdle /\ HttpIdle /\ AsyncIdle /\ UtIdle /\ SbIdle /\ StatIdle /\ CacheIdle /\ RetrIdle
    /\ platform \in Platforms
    /\ raw_filename \in NameInputs
    /\ custom_filename = <<>> /\ save_node = "none" /\ batch_total = 0
    /\ sanitized_filename = None /\ filenames = <<>> /\ names_pc = "input"

\* sanitized_filename = sanitize_filename(filename) if filename else None
Sanitize ==
    /\ names_pc = "input"
    /\ sanitized_filename' = sanitize_filename(raw_filename, platform)
    /\ names_pc' = "sanitized"
    /\ UNCHANGED <<platform, raw_filename, custom_filename, save_node, batch_total, filenames>>
    /\ UNCHANGED outsideNames

\* The loop over the batch: one filename per output, appended in batch order.
SaveOutputs(node, custom, n) ==
    /\ names_pc = "sanitized"
    /\ save_node' = node /\ custom_filename' = custom /\ batch_total' = n
    /\ filenames' = [k \in 1..n |->
                        FileName(node, sanitized_filename,
                                 Custom(node, custom, platform), n, k - 1)]
    /\ names_pc' = "saved"
    /\ UNCHANGED <<platform, raw_filename, sanitized_filename>>
    /\ UNCHANGED outsideNames

NextNames ==
    \/ Sanitize
    \/ \E node \in SaveNodes, custom \in CustomInputs :
          \E n \in Totals(node) : SaveOutputs(node, custom, n)

SpecNames == InitNames /\ [][NextNames]_vars

\* ============================================================== save nodes
\* One invocation of a save node (save_image_extended.py 166-339,
\* save_audio_extended.py 232-314, save_video_extended.py 141-212 and 353-407,
\* save_workflow_extended.py 223-334): the status events it sends, the files
\* it writes and lists, and the cloud phase.  An event is recorded when the
\* node calls send_sync; a failure of the sink is dropped by the node.
SaveNodeKinds == {"image", "audio", "webm", "video", "workflow"}
VideoNodes == {"webm", "video"}
\* Outputs per invocation: a batch for images and audio (an audio batch may
\* be empty), one file otherwise.
Outputs(node) ==
    CASE node = "image" -> 1 .. MaxBatch
      [] node = "audio" -> 0 .. MaxBatch
      [] OTHER -> {1}

StatusEvent(phase, where, nlocal, ncloud) ==
    [phase |-> phase, where |-> where, count_local |-> nlocal, count_cloud |-> ncloud]

\* The events of the try / except / else around the cloud upload: "error"
\* in the except clause, "complete" in the else clause.
ClosingEventsFinally(outcome, nlocal, ncloud) ==
    IF outcome = "ok" THEN <<StatusEvent("complete", "cloud", nlocal, ncloud)>>
    ELSE <<StatusEvent("error", "cloud", 0, 0), StatusEvent("complete", "cloud", nlocal, ncloud)>>
ClosingEvents(outcome, nlocal, ncloud) ==
    IF outcome = "ok" THEN <<StatusEvent("complete", "cloud", nlocal, ncloud)>>
    ELSE <<StatusEvent("error", "cloud", 0, 0)>>

\* if save_to_cloud and cloud_items / if save_to_cloud
Uploads(node, cloud, n) ==
    IF node \in {"image", "audio"} THEN cloud /\ n > 0 ELSE cloud

\* os.remove(out_path) inside try / except: pass, when save_to_local is off:
\* the file is gone, or the removal failed and the file is left ("left").
AfterRemoveKept(file, removed) == file
AfterRemove(file, removed) == IF removed THEN "absent" ELSE "left"

InitStatus ==
    /\ EarlierIdle /\ SessIdle /\ HttpIdle /\ AsyncIdle /\ UtIdle /\ SbIdle /\ NamesIdle /\ CacheIdle /\ RetrIdle
    /\ sn_node \in SaveNodeKinds
    /\ save_to_cloud \in BOOLEAN /\ save_to_local \in BOOLEAN
    /\ sn_total \in Outputs(sn_node)
    /\ sn_idx = 0 /\ ui_results = 0 /\ written = 0 /\ cloud_items = 0
    /\ upload_outcome = "none" /\ returned_cloud = 0 /\ status_events = <<>>
    /\ out_file \in {"absent", "present"}
    /\ out_file = "present" => sn_node \in VideoNodes
    /\ sn_pc = "start"

\* send_sync(..., {"phase": "start", ...})
EmitStart ==
    /\ sn_pc = "start"
    /\ status_events' = Append(status_events, StatusEvent("start", "", 0, 0))
    /\ sn_pc' = "outputs"
    /\ UNCHANGED <<sn_node, save_to_cloud, save_to_local, sn_total, sn_idx, ui_results,
                   written, cloud_items, upload_outcome, returned_cloud, out_file>>
    /\ UNCHANGED outsideStat

\* audio: _encode_one raises: an "error" event, then the exception leaves
\* the node.
EncodeFails ==
    /\ sn_pc = "outputs" /\ sn_node = "audio" /\ sn_idx < sn_total
    /\ status_events' = Append(status_events, StatusEvent("error", "encode", 0, 0))
    /\ sn_pc' = "raised"
    /\ UNCHANGED <<sn_node, save_to_cloud, save_to_local, sn_total, sn_idx, ui_results,
                   written, cloud_items, upload_outcome, returned_cloud, out_file>>
    /\ UNCHANGED outsideStat

\* image, audio, workflow: one output.  With save_to_local the file is
\* written and listed, with a "progress" event, or the failure is answered by
\* an "error" event; with save_to_cloud the bytes join cloud_items.
SaveOutput(ok) ==
    /\ sn_pc = "outputs" /\ sn_node \notin VideoNodes /\ sn_idx < sn_total
    /\ ~ok => save_to_local
    /\ IF save_to_local
       THEN IF ok
            THEN /\ written' = written + 1 /\ ui_results' = ui_results + 1
                 /\ status_events' = Append(status_events, StatusEvent("progress", "local", 0, 0))
            ELSE /\ UNCHANGED <<written, ui_results>>
                 /\ status_events' = Append(status_events, StatusEvent("error", "local", 0, 0))
       ELSE UNCHANGED <<written, ui_results, status_events>>
    /\ cloud_items' = IF save_to_cloud THEN cloud_items + 1 ELSE cloud_items
    /\ sn_idx' = sn_idx + 1
    /\ UNCHANGED <<sn_node, save_to_cloud, save_to_local, sn_total, upload_outcome,
                   returned_cloud, out_file, sn_pc>>
    /\ UNCHANGED outsideStat

\* video nodes: the file is always rendered to out_path first; it is listed
\* only with save_to_local.  A failure of the rendering leaves the node as an
\* exception, with or without a partial file.
Render(ok, partial) ==
    /\ sn_pc = "outputs" /\ sn_node \in VideoNodes /\ sn_idx < sn_total
    /\ ok => partial
    /\ out_file' = IF partial THEN "present" ELSE out_file
    /\ IF ok
       THEN /\ sn_idx' = sn_idx + 1 /\ sn_pc' = sn_pc
            /\ written' = IF save_to_local THEN written + 1 ELSE written
            /\ ui_results' = IF save_to_local THEN ui_results + 1 ELSE ui_results
            /\ status_events' = IF save_to_local
                                THEN Append(status_events, StatusEvent("progress", "local", 0, 0))
                                ELSE status_events
            /\ cloud_items' = IF save_to_cloud THEN cloud_items + 1 ELSE cloud_items
       ELSE /\ sn_pc' = "raised"
            /\ UNCHANGED <<sn_idx, written, ui_results, status_events, cloud_items>>
    /\ UNCHANGED <<sn_node, save_to_cloud, save_to_local, sn_total, upload_outcome, returned_cloud>>
    /\ UNCHANGED outsideStat

\* After the outputs: with something to upload the cloud try block is
\* entered, otherwise "complete" with count_cloud 0 is sent.
AfterOutputs ==
    /\ sn_pc = "outputs" /\ sn_idx = sn_total
    /\ IF Uploads(sn_node, save_to_cloud, cloud_items)
       THEN sn_pc' = "upload" /\ status_events' = status_events
       ELSE /\ sn_pc' = "cleanup"
            /\ status_events' = Append(status_events, StatusEvent("complete", "", ui_results, 0))
    /\ UNCHANGED <<sn_node, save_to_cloud, save_to_local, sn_total, sn_idx, ui_results,
                   written, cloud_items, upload_outcome, returned_cloud, out_file>>
    /\ UNCHANGED outsideStat

\* _progress_cb / _bytes_cb called by the adapter during the upload.
CloudProgress ==
    /\ sn_pc = "upload"
    /\ Len(status_events) < 2 * MaxBatch + 2
    /\ status_events' = Append(status_events, StatusEvent("progress", "cloud", 0, 0))
    /\ UNCHANGED <<sn_node, save_to_cloud, save_to_local, sn_total, sn_idx, ui_results,
                   written, cloud_items, upload_outcome, returned_cloud, out_file, sn_pc>>
    /\ UNCHANGED outsideStat

\* The cloud try block ends: get_uploader and upload_many returned one
\* result per item, or one of them raised.
Upload(outcome) ==
    /\ sn_pc = "upload"
    /\ upload_outcome' = outcome
    /\ returned_cloud' = IF outcome = "ok" THEN cloud_items ELSE 0
    /\ status_events' = status_events \o ClosingEvents(outcome, ui_results, returned_cloud')
    /\ sn_pc' = "cleanup"
    /\ UNCHANGED <<sn_node, save_to_cloud, save_to_local, sn_total, sn_idx, ui_results,
                   written, cloud_items, out_file>>
    /\ UNCHANGED outsideStat

\* The video nodes remove the rendered file when save_to_local is off; then
\* every node returns.
ReturnNode(removed) ==
    /\ sn_pc = "cleanup"
    /\ ~removed => (sn_node \in VideoNodes /\ ~save_to_local)
    /\ out_file' = IF sn_node \in VideoNodes /\ ~save_to_local
                   THEN AfterRemove(out_file, removed) ELSE out_file
    /\ sn_pc' = "returned"
    /\ UNCHANGED <<sn_node, save_to_cloud, save_to_local, sn_total, sn_idx, ui_results,
                   written, cloud_items, upload_outcome, returned_cloud, status_events>>
    /\ UNCHANGED outsideStat

NextStatus ==
    \/ EmitStart
    \/ EncodeFails
    \/ \E ok \in BOOLEAN : SaveOutput(ok)
    \/ \E ok \in BOOLEAN, partial \in BOOLEAN : Render(ok, partial)
    \/ AfterOutputs
    \/ CloudProgress
    \/ \E outcome \in {"ok", "failed"} : Upload(outcome)
    \/ \E removed \in BOOLEAN : ReturnNode(removed)

SpecStatus == InitStatus /\ [][NextStatus]_vars

\* ================================================= token cache: two writers
\* dropbox_client.Uploader._write_cached_tokens called by two threads, for
\* the apps "A" and "B", on the same dropbox_tokens.json.  The function takes
\* no lock; its steps are: read the file into data, set data[key], open the
\* file for writing (which truncates it), json.dump(data).  The file is the
\* set of apps it has entries for, or unreadable while truncated.
Writers == {"A", "B"}
OtherApps == {"C", "D"}
Truncated == [valid |-> FALSE, apps |-> {}]

InitCache ==
    /\ EarlierIdle /\ SessIdle /\ HttpIdle /\ AsyncIdle /\ UtIdle /\ SbIdle /\ NamesIdle /\ StatIdle /\ RetrIdle
    /\ \E before \in SUBSET (OtherApps \cup Writers) :
          shared_cache = [valid |-> TRUE, apps |-> before]
    /\ writer_pc = [w \in Writers |-> "read"]
    /\ writer_data = [w \in Writers |-> {}]

\* if os.path.exists(path): data = json.load(fh) else: data = {};
\* except Exception: data = {}
ReadIntoData(file) == IF file.valid THEN file.apps ELSE {}

ReadFile(w) ==
    /\ writer_pc[w] = "read"
    /\ writer_data' = [writer_data EXCEPT ![w] = ReadIntoData(shared_cache)]
    /\ writer_pc' = [writer_pc EXCEPT ![w] = "modify"]
    /\ UNCHANGED shared_cache
    /\ UNCHANGED outsideCache

\* data[_cache_key(app_key, app_secret)] = {...}
Modify(w) ==
    /\ writer_pc[w] = "modify"
    /\ writer_data' = [writer_data EXCEPT ![w] = @ \cup {w}]
    /\ writer_pc' = [writer_pc EXCEPT ![w] = "open"]
    /\ UNCHANGED shared_cache
    /\ UNCHANGED outsideCache

\* open(path, "w"): the file is truncated.
OpenForWrite(w) ==
    /\ writer_pc[w] = "open"
    /\ shared_cache' = Truncated
    /\ writer_pc' = [writer_pc EXCEPT ![w] = "dump"]
    /\ UNCHANGED writer_data
    /\ UNCHANGED outsideCache

\* json.dump(data, fh) and close.
Dump(w) ==
    /\ writer_pc[w] = "dump"
    /\ shared_cache' = [valid |-> TRUE, apps |-> writer_data[w]]
    /\ writer_pc' = [writer_pc EXCEPT ![w] = "done"]
    /\ UNCHANGED writer_data
    /\ UNCHANGED outsideCache

NextCache ==
    \/ \E w \in Writers : ReadFile(w)
    \/ \E w \in Writers : Modify(w)
    \/ \E w \in Writers : OpenForWrite(w)
    \/ \E w \in Writers : Dump(w)

SpecCache == InitCache /\ [][NextCache]_vars

\* ============================================================ ftp: RETR
\* One key of ftp_client.Uploader.download / download_many after _cd_only:
\* _retr_with_fallbacks tries the candidates in order with one callback.

\* Blocks in the longest remote file.
MaxBlocks == 2

\* candidates: name, "/" + name, and with a prefix also pfx/name, /pfx/name.
CandidateCounts == {2, 4}

\* The file at candidate c, block by block: no two remote files share a block.
FileBlocks(c, len) == [k \in 1 .. len |-> <<c, k>>]

InitRetr ==
    /\ EarlierIdle /\ SessIdle /\ HttpIdle /\ AsyncIdle /\ UtIdle /\ SbIdle /\ NamesIdle /\ StatIdle /\ CacheIdle
    /\ retr_op \in {"download", "download_many"}
    /\ retr_byte_cb \in (IF retr_op = "download_many" THEN BOOLEAN ELSE {FALSE})
    /\ \E n \in CandidateCounts : remote_files \in [1 .. n -> -1 .. MaxBlocks]
    /\ candidate = 1 /\ received = 0 /\ bio = <<>>
    /\ retr_sent = 0 /\ retr_events = <<>> /\ retrieved = 0
    /\ retr_pc = "retr"

\* retrbinary: data = conn.recv(blocksize); callback(data).  The callback is
\* bio.write, or _cb: bio.write(chunk); sent["n"] += len(chunk);
\* byte_callback({"delta", "sent", ...}) inside try/except.
RetrBlock ==
    /\ retr_pc = "retr"
    /\ received < remote_files[candidate]
    /\ received' = received + 1
    /\ bio' = Append(bio, FileBlocks(candidate, remote_files[candidate])[received + 1])
    /\ IF retr_byte_cb
       THEN /\ retr_sent' = retr_sent + 1
            /\ retr_events' = Append(retr_events, [delta |-> 1, sent |-> retr_sent + 1])
       ELSE UNCHANGED <<retr_sent, retr_events>>
    /\ UNCHANGED <<retr_op, retr_byte_cb, remote_files, candidate, retrieved, retr_pc>>
    /\ UNCHANGED outsideRetr

\* recv returned b"" and voidresp() accepted the final reply: the for loop
\* of _retr_with_fallbacks returns.
RetrReturns ==
    /\ retr_pc = "retr"
    /\ remote_files[candidate] >= 0 /\ received = remote_files[candidate]
    /\ retrieved' = candidate
    /\ retr_pc' = "returned"
    /\ UNCHANGED <<retr_op, retr_byte_cb, remote_files, candidate, received, bio,
                   retr_sent, retr_events>>
    /\ UNCHANGED outsideRetr

\* retrbinary raises: 550 for a missing file, or a recv error / a 4xx final
\* reply after some blocks.  "except Exception: last_err = e; continue", and
\* "raise last_err" after the last candidate.
RetrRaises ==
    /\ retr_pc = "retr"
    /\ received' = 0
    /\ IF candidate < Len(remote_files)
       THEN candidate' = candidate + 1 /\ UNCHANGED retr_pc
       ELSE retr_pc' = "raised" /\ UNCHANGED candidate
    /\ UNCHANGED <<retr_op, retr_byte_cb, remote_files, bio, retr_sent, retr_events,
                   retrieved>>
    /\ UNCHANGED outsideRetr

NextRetr == RetrBlock \/ RetrReturns \/ RetrRaises

SpecRetr == InitRetr /\ [][NextRetr]_vars

\* ============================================================ properties
Positions == 0 .. (Len(items) - 1)

\* The history entries of item j with a kind in K, in order.
EventsOf(j, K) == SelectSeq(events, LAMBDA e : e.index = j /\ e.kind \in K)

RECURSIVE SumLen(_)
SumLen(s) == IF s = <<>> THEN 0 ELSE s[1].len + SumLen(Tail(s))

\* Requests that leave the complete object of an item on the backend.
IsCompleting(e) ==
    \/ e.kind \in {"put", "post", "session_finish", "commit_block_list", "close"}
    \/ e.kind = "resumable_put" /\ e.offset + e.len >= e.total

Written(j) == \E n \in 1 .. Len(events) : events[n].index = j /\ IsCompleting(events[n])

\* The list a fault-free upload_many or download_many returns for items.
ExpectedResults == [i \in 1 .. Len(items) |-> [filename |-> FilenameAt(i - 1), size |-> items[i]]]

\* C1: an upload_many call that returns, returns exactly one result per
\* item, and the result at position i is the result of item i.
C1_OneResultPerItemInOrder ==
    (pc = "done" /\ op = "upload_many") =>
        /\ Len(results) = Len(items)
        /\ \A i \in 1 .. Len(items) :
              results[i].filename = FilenameAt(i - 1) /\ results[i].size = items[i]

C1_Witness ==
    /\ pc = "done" /\ op = "upload_many" /\ failedAt = -1
    /\ Len(items) = 3 /\ Len(results) = 3 /\ items[1] # items[2]
    /\ stored = {0, 1, 2}

SingleKinds == {"put", "post"}
ChunkKinds ==
    {"session_start", "session_append", "session_finish", "resumable_init",
     "resumable_put", "stage_block", "commit_block_list"}

ChunkingModules == ThresholdModules \cup {"gcs"}

ByteCallbacks(j) == EventsOf(j, {"byte_callback"})

\* C7: for an item upload_many sends in chunks, every byte callback reports
\* the item's length as total and sent <= total; sent starts at the first
\* delta and grows by exactly the reported delta (> 0) from one callback to
\* the next; once the item is complete the deltas add up to the payload
\* length and the last callback reports sent = total.
C7_ByteProgressAddsUp ==
    (op = "upload_many" /\ module \in ChunkingModules) =>
        \A j \in Positions :
           LET cbs == ByteCallbacks(j) IN
              /\ \A n \in 1 .. Len(cbs) :
                    /\ cbs[n].total = items[j + 1]
                    /\ cbs[n].len > 0
                    /\ cbs[n].sent <= cbs[n].total
                    /\ cbs[n].sent = (IF n = 1 THEN 0 ELSE cbs[n - 1].sent) + cbs[n].len
              /\ (j < Len(results)
                    /\ TransferPath(module, items[j + 1], byte_callback) \in {"chunked", "stream"}) =>
                    /\ SumLen(cbs) = items[j + 1]
                    /\ items[j + 1] > 0 => cbs[Len(cbs)].sent = items[j + 1]

C7_Witness ==
    /\ op = "upload_many" /\ module = "azure_blob" /\ pc = "done"
    /\ \E j \in Positions :
          /\ Len(ByteCallbacks(j)) = 3
          /\ ByteCallbacks(j)[3].sent = items[j + 1]
          /\ ByteCallbacks(j)[3].len = 1

\* Adapters with a session / resumable upload protocol.
SessionModules == {"dropbox_client", "gdrive", "onedrive"}

InitKinds == {"session_start", "resumable_init"}
DataKinds == {"session_start", "session_append", "session_finish", "resumable_put"}

IsFinal(e) ==
    \/ e.kind = "session_finish"
    \/ e.kind = "resumable_put" /\ e.offset + e.len = e.total

\* C8: the requests of one chunked item start with its only initiation; the
\* chunks follow in offset order, each starting where the one before ended,
\* each but the last CHUNK bytes long; only the last request of a complete
\* item finalizes, and it ends at the payload length; every dropbox append
\* and finish carries a cursor offset equal to the bytes sent before it.
C8_ChunkProtocol ==
    (op = "upload_many" /\ module \in SessionModules) =>
        \A j \in Positions :
           LET reqs == EventsOf(j, InitKinds \cup DataKinds)
               data == EventsOf(j, DataKinds)
           IN  /\ reqs # <<>> =>
                     /\ reqs[1].kind \in InitKinds
                     /\ \A n \in 2 .. Len(reqs) : reqs[n].kind \notin InitKinds
               /\ \A n \in 1 .. Len(data) :
                     /\ data[n].offset = (IF n = 1 THEN 0 ELSE data[n - 1].offset + data[n - 1].len)
                     /\ data[n].len > 0
                     /\ data[n].offset + data[n].len <= data[n].total
                     /\ n < Len(data) => (data[n].len = CHUNK(module) /\ ~IsFinal(data[n]))
                     /\ data[n].kind \in {"session_append", "session_finish"} =>
                           data[n].sent = data[n].offset
               /\ (j < Len(results) /\ reqs # <<>>) =>
                     /\ data # <<>>
                     /\ IsFinal(data[Len(data)])
                     /\ data[Len(data)].offset + data[Len(data)].len = items[j + 1]

C8_Witness ==
    /\ op = "upload_many" /\ module = "dropbox_client" /\ pc = "done"
    /\ \E j \in Positions :
          LET data == EventsOf(j, DataKinds) IN
             /\ Len(data) = 3
             /\ data[2].kind = "session_append" /\ data[3].kind = "session_finish"
             /\ data[3].sent = 2 * CHUNK(module)

\* C9 as claimed: in upload_many the item-progress callbacks report the
\* indices 0, 1, ... in that order, one per item; the callback of item i
\* comes after every request and every byte callback of item i and before
\* any request or callback of a later item.
C9_ProgressAfterItemBeforeNext ==
    op = "upload_many" =>
        LET prog == SelectSeq(events, LAMBDA e : e.kind = "progress_callback") IN
           /\ \A n \in 1 .. Len(prog) : prog[n].index = n - 1
           /\ (pc = "done" /\ progress_callback) => Len(prog) = Len(items)
           /\ \A n \in 1 .. Len(events) :
                 events[n].kind = "progress_callback" =>
                    /\ \A k \in 1 .. (n - 1) : events[k].index <= events[n].index
                    /\ \A k \in (n + 1) .. Len(events) : events[k].index > events[n].index

\* C10: when a callback raises in a call whose backend requests all succeed,
\* the call does not raise, and once it returns the results are the ones of
\* the items, one per item in input order, and every item of an upload is
\* stored (upload_thing sends an item only where its presigned entry names
\* a target).
C10_CallbackErrorDiscarded ==
    (cbFailed /\ failedAt = -1 /\ exc = "none") =>
        /\ pc # "raised"
        /\ pc = "done" =>
              /\ results = ExpectedResults
              /\ (op = "upload_many" /\ module # "upload_thing") => stored = Positions

C10_Witness ==
    /\ cbFailed /\ pc = "done" /\ op = "upload_many" /\ module = "dropbox_client"
    /\ Len(items) = 2 /\ results = ExpectedResults
    /\ Len(ByteCallbacks(0)) = 3 /\ Len(ByteCallbacks(1)) = 2

\* C4 as claimed: the lookup a node makes succeeds for each of the names the
\* nodes offer and raises the unsupported-provider error for any other name.
C4_ElevenNamesResolve ==
    (caller = "node" /\ pc \notin {"idle", "lookup"}) =>
        IF provider \in cloud_provider_choices
        THEN module \in Modules
        ELSE pc = "raised" /\ exc = "ValueError"

\* C5 as claimed: the batch call of a node is accepted by every adapter the
\* registry returns, and with a backend that does not fail the node ends
\* with one cloud result per item.
C5_NodeCallAccepted ==
    (caller = "node" /\ module \in Modules) =>
        /\ exc # "TypeError"
        /\ (nodePhase # "running" /\ exc # "BackendError") =>
              /\ nodePhase = "complete"
              /\ Len(cloud_results) = Len(items)

\* The key a round trip downloads: the filename given to upload(), for
\* upload_thing the key upload() returned.
RoundTripKey == IF adapter = "upload_thing" THEN last_upload.path ELSE last_upload.filename

\* C3 as claimed: a download of the key, made directly after a successful
\* upload, returns the content that was uploaded, whatever was uploaded
\* before.
C3_RoundTrip ==
    (fresh /\ download_key = RoundTripKey) => downloaded = last_upload.content

\* ---------------------------------------------------------- logged lines
\* hay contains needle as a substring.
Contains(hay, needle) ==
    \E i \in 0 .. (Len(hay) - Len(needle)) : SubSeq(hay, i + 1, i + Len(needle)) = needle

NamedSensitive(k) == Lower(k) \in SENSITIVE_KEYS

\* Every str inside a value.
RECURSIVE StringsOf(_)
StringsOf(value) ==
    IF value.t = "str" THEN {value.v}
    ELSE IF value.t = "dict" THEN UNION {StringsOf(value.v[k]) : k \in DOMAIN value.v}
    ELSE IF value.t \in {"list", "tuple"}
    THEN UNION {StringsOf(value.v[i]) : i \in 1 .. Len(value.v)}
    ELSE {}

\* Every str inside a value that is not below a key with a sensitive name.
RECURSIVE ExposedStrings(_)
ExposedStrings(value) ==
    IF value.t = "str" THEN {value.v}
    ELSE IF value.t = "dict"
    THEN UNION {ExposedStrings(value.v[k]) : k \in {x \in DOMAIN value.v : ~NamedSensitive(x)}}
    ELSE IF value.t \in {"list", "tuple"}
    THEN UNION {ExposedStrings(value.v[i]) : i \in 1 .. Len(value.v)}
    ELSE {}

\* Every key with a sensitive name, at any depth of a value, holds '***'.
RECURSIVE DictsMasked(_)
DictsMasked(value) ==
    IF value.t = "dict"
    THEN \A k \in DOMAIN value.v :
            IF NamedSensitive(k) THEN value.v[k] = MASK ELSE DictsMasked(value.v[k])
    ELSE IF value.t \in {"list", "tuple"}
    THEN \A i \in 1 .. Len(value.v) : DictsMasked(value.v[i])
    ELSE TRUE

LineStrings(line) ==
    UNION ({StringsOf(line.args[i]) : i \in 1 .. Len(line.args)}
           \cup {StringsOf(line.kwargs[k]) : k \in DOMAIN line.kwargs})

\* The secret is passed somewhere other than under a sensitive name.
SecretExposed ==
    \/ \E i \in 1 .. Len(args) : \E str \in ExposedStrings(args[i]) : Contains(str, secret)
    \/ \E k \in DOMAIN kwargs :
          ~NamedSensitive(k) /\ \E str \in ExposedStrings(kwargs[k]) : Contains(str, secret)

\* C11 as claimed: the line printed for a failing adapter call is the same
\* whatever secret the credential (token, JSON credential string, password
\* of the FTP locator) holds.
C11_LineSameForEveryCredential ==
    (logPc = "raised" /\ func # "f") =>
        \A shape \in CredentialShapes :
           args = ArgsOf(shape, secret) =>
              \A other \in Secrets : LogLine(func, ArgsOf(shape, other), kwargs) = printed[1]

\* C12: in the printed line every keyword argument with a sensitive name and
\* every dict key with a sensitive name, at any depth of the arguments,
\* holds '***'; no str of the line is longer than 128 characters and a str
\* argument longer than that is printed as its first 125 characters and
\* '...'; a secret passed only under sensitive names does not occur in the
\* line.
C12_SensitiveNamesMasked ==
    logPc = "raised" =>
        LET line == printed[1] IN
           /\ \A k \in DOMAIN kwargs : NamedSensitive(k) => line.kwargs[k] = MASK
           /\ \A i \in 1 .. Len(line.args) : DictsMasked(line.args[i])
           /\ \A k \in DOMAIN line.kwargs : DictsMasked(line.kwargs[k])
           /\ \A str \in LineStrings(line) : Len(str) <= 128
           /\ \A i \in 1 .. Len(args) :
                 (args[i].t = "str" /\ Len(args[i].v) > 128) =>
                    line.args[i].v = SubSeq(args[i].v, 1, 125) \o <<".", ".", ".">>
           /\ ~SecretExposed => \A str \in LineStrings(line) : ~Contains(str, secret)

C12_Witness ==
    /\ logPc = "raised" /\ func = "f"
    /\ args = <<Dict([k \in {"filename"} |-> Dict([j \in {"Token"} |-> Str(secret)])])>>
    /\ kwargs = [k \in {"api_key"} |-> Str(secret \o Chars(StrLimit))]
    /\ printed[1].args[1].v["filename"].v["Token"] = MASK
    /\ printed[1].kwargs["api_key"] = MASK

\* ------------------------------------------------------- token cache
\* The credential {app_key, app_secret, authorization_code}.
IsCodeCredential(cred) ==
    /\ cred.json /\ cred.app_key # NoStr /\ cred.app_secret # NoStr
    /\ cred.authorization_code # Absent
    /\ cred.refresh_token = Absent /\ cred.access_token = Absent

\* The digest of 'app_key:app_secret'.
DigestOf(cred) == [sha256 |-> cred.app_key \o <<":">> \o cred.app_secret]

\* The cache entry of the credential's app that a call can read.
Readable(file, fs, cred) ==
    /\ file.exists /\ file.valid /\ fs # "read_fails"
    /\ DigestOf(cred) \in DOMAIN file.data

EntryIn(file, cred) ==
    IF file.exists /\ file.valid /\ DigestOf(cred) \in DOMAIN file.data
    THEN file.data[DigestOf(cred)] ELSE NoEntry

\* C14: a successful authorization-code exchange whose cache write works
\* leaves a cache entry for its app holding the returned refresh token, a
\* successful refresh-token exchange whose cache write works leaves the
\* entry of its app rewritten with the tokens in use,
\* and every (app_key, app_secret) pair that had an entry in the cache file
\* when a Dropbox operation began still has one when it ends, whichever app
\* the operation was for.
C14_EntryCreatedRewrittenNeverRemoved ==
    service = "dropbox" =>
       /\ (env.code \in {"both", "no_access"} /\ env.fs \in {"ok", "read_fails"}) =>
             EntryIn(token_cache, api_key).refresh_token = "rt_minted"
       /\ (env.refresh = "access" /\ env.fs \in {"ok", "read_fails"}) =>
             /\ EntryIn(token_cache, api_key).refresh_token = resolved.refresh_token
             /\ EntryIn(token_cache, api_key).access_token = "at_refreshed"
       /\ KeysOf(cache_before) \subseteq KeysOf(token_cache)

\* C15: a Dropbox call sends the authorization code to the token endpoint
\* only when it cannot read a cache entry for the credential's app; a call
\* with the credential {app_key, app_secret, authorization_code} that can
\* read the entry sends no code, and the client it returns carries the
\* entry's refresh token.
C15_CodeSentOnlyWithoutEntry ==
    service = "dropbox" =>
       /\ Sends(token_requests, "authorization_code") =>
             ~Readable(cache_before, env.fs, api_key)
       /\ (IsCodeCredential(api_key) /\ Readable(cache_before, env.fs, api_key)) =>
             /\ env.code = "none"
             /\ resolved.status = "client" =>
                   resolved.refresh_token = EntryIn(cache_before, api_key).refresh_token

C15_Witness ==
    /\ service = "dropbox" /\ IsCodeCredential(api_key)
    /\ Readable(cache_before, env.fs, api_key)
    /\ EntryIn(cache_before, api_key) =
          [app_key |-> api_key.app_key, refresh_token |-> "rt_minted",
           access_token |-> "at_minted"]
    /\ token_requests = <<>>
    /\ resolved = Client("at_minted", "rt_minted")

\* The flow a JSON credential is complete for: none when it has no access
\* token and lacks an app part or the token its exchange starts from (for
\* Dropbox a readable cache entry supplies the refresh token).
LacksRequired(svc, cred, file, fs) ==
    /\ cred.json /\ cred.access_token = Absent
    /\ CASE svc = "dropbox" ->
               ~(/\ cred.app_key # NoStr /\ cred.app_secret # NoStr
                 /\ \/ cred.refresh_token # Absent
                    \/ cred.authorization_code # Absent
                    \/ Readable(file, fs, cred))
         [] svc = "gdrive" ->
               ~(cred.refresh_token # Absent /\ cred.app_key # NoStr
                                              /\ cred.app_secret # NoStr)
         [] OTHER ->
               ~(cred.refresh_token # Absent /\ cred.app_key # NoStr)

\* C16: a Dropbox, Google Drive or OneDrive call whose JSON credential
\* lacks the sub-fields of every flow ends with the invalid-credential
\* error (ValueError), having sent no token-endpoint request; no client or
\* Authorization header is produced, so no storage request follows.
C16_IncompleteCredentialRejected ==
    (service # "none" /\ LacksRequired(service, api_key, cache_before, env.fs))
    => /\ resolved.status = "raised" /\ resolved.error = "ValueError"
       /\ token_requests = <<>>

\* ------------------------------------------------------------ addresses
\* The 'bucket[/prefix]' part of a locator: what follows the scheme, or
\* the path below the endpoint of a URL.
BucketPart(link) ==
    IF link.scheme \in {"http", "https"} THEN LStrip(urlparse(link).path) ELSE link.text
LocatorBucket(link) == Split(BucketPart(link))[1]
LocatorBase(link) == Join(Tail(Split(BucketPart(link))))

\* C17: for the AWS S3, S3-Compatible, GCS, B2 and Azure resolvers and a
\* locator that names a bucket, the resolved bucket is the locator's bucket
\* and the resolved key is the '/'-join of the non-empty segments of the
\* locator's base prefix, then of the folder path, then the filename: no
\* empty segment, no leading and no doubled slash.
C17_KeyIsJoinOfNonEmptySegments ==
    \A n \in 1 .. Len(addresses) :
       (/\ backend \in BucketModules \cup UrlModules
        /\ addresses[n].raised = ""
        /\ LocatorBucket(bucket_link) # <<>>)
       => /\ addresses[n].container = LocatorBucket(bucket_link)
          /\ addresses[n].key =
                Join(Segments(LocatorBase(bucket_link))
                        \o Segments(cloud_folder_path) \o <<object_name>>)

\* C18: the operations of one adapter called again with the same locator,
\* folder path and filename resolve the same address: every call that
\* resolves one names the same bucket / container / host, the same parent
\* folder id and the same key or path as the calls before it, whatever those
\* left behind (folders and files on the backend, directories on the FTP
\* server).
C18_SameInputsSameAddress ==
    \A i, j \in 1 .. Len(addresses) :
       (addresses[i].raised = "" /\ addresses[j].raised = "")
       => /\ addresses[i].container = addresses[j].container
          /\ addresses[i].parent = addresses[j].parent
          /\ addresses[i].key = addresses[j].key

C18_Witness ==
    /\ backend = "gdrive" /\ bucket_link.scheme = ""
    /\ cloud_folder_path = <<"2024">>
    /\ Len(addresses) = 2
    /\ addresses[1].parent # RootId
    /\ addresses[2].parent = addresses[1].parent
    /\ \E f \in drive : f.folder /\ f.id = addresses[1].parent /\ f.name = <<"2024">>
    /\ Cardinality({f \in drive : ~f.folder /\ f.parent = addresses[1].parent}) = 2

\* C19: an FTP upload that succeeds logged in, walked the segments of the
\* base path and then of the folder path, making each directory before
\* entering it, stored the file in the directory it ended in and reports
\* '/' + prefix + '/' + filename; and the reported path names the location
\* where the file was stored: its segments are the directory the file is in,
\* from the server's root, followed by the filename.
C19_ReportedPathIsStoredLocation ==
    (/\ backend = "ftp_client" /\ operation \in {"upload", "upload_many"}
     /\ addresses # <<>> /\ addresses[Len(addresses)].raised = "")
    => LET last == addresses[Len(addresses)]
           prefix == PrefixOf(urlparse(bucket_link).path, cloud_folder_path)
       IN  /\ SubSeq(conn_trace, 1, 2) = <<"connect", "login">>
           /\ conn_trace[Len(conn_trace)] = "stor"
           /\ Len(SelectSeq(conn_trace, LAMBDA c : c = "mkd")) = Len(Segments(prefix))
           /\ [dir |-> last.stored_in, name |-> object_name] \in ftp_server.files
           /\ last.key = <<"/">> \o KeyOf(prefix, object_name)
           /\ Segments(last.key) = last.stored_in \o <<object_name>>

\* The locator matches the scheme of the adapter.
MatchesScheme(m, link) ==
    IF m = "ftp_client" THEN link.scheme = "ftp" ELSE link.scheme \in {"http", "https"}

\* C20: upload, upload_many, download and download_many of the FTP and the
\* S3-Compatible adapter, called with a locator that does not have the
\* adapter's scheme, raise the invalid-locator error (ValueError) with no
\* connection opened, no client created and no command or request sent, and
\* nothing on the server has changed.
C20_WrongSchemeRaisesBeforeConnecting ==
    (/\ backend \in ConnectModules /\ addresses # <<>>
     /\ ~MatchesScheme(backend, bucket_link))
    => /\ \A n \in 1 .. Len(addresses) : addresses[n] = InvalidLocator
       /\ conn_trace = <<>>
       /\ ftp_server.dirs = {} /\ ftp_server.files = {}

C20_Witness ==
    /\ backend = "ftp_client" /\ operation = "download_many"
    /\ bucket_link = [scheme |-> "", text |-> <<"my-bucket", "/", "outputs">>]
    /\ addresses = <<InvalidLocator, InvalidLocator>>
    /\ conn_trace = <<>>

\* --- folder creation and FTP sessions
IsCreate(c) == c[1] \in {CreateCommand(m) : m \in FolderModules}
IsTransfer(c) == c[1] \in {"upload", "stor", "retr"}

\* C21: a create-folder, create-container or mkd request that fails for a
\* reason other than 'already exists' ends the call with an error, and no
\* item is transferred after it.
C21_OnlyAlreadyExistsTolerated ==
    \A i \in DOMAIN commands :
        IsCreate(commands[i]) /\ commands[i][2] = "denied" =>
            /\ step # "returned"
            /\ \A j \in DOMAIN commands : j > i => ~IsTransfer(commands[j])

\* C22: when an FTP call has returned or raised, the connection it opened
\* is closed, whichever command failed.
C22_ConnectionClosedOnEveryExit ==
    uploader = "ftp_client" /\ step \in {"returned", "raised"} =>
        /\ sock # "open"
        /\ (\E i \in DOMAIN commands :
               commands[i][1] = "connect" /\ commands[i][2] # "refused") => sock = "closed"

C22_Witness ==
    /\ uploader = "ftp_client" /\ step = "raised" /\ sock = "closed"
    /\ raising \in {"login", "cwd", "stor", "retr"}

\* --- HTTP requests
\* C23: every request an adapter sends carries a timeout, and no call is
\* left waiting without end for an answer that never comes.
C23_EveryRequestTimesOut ==
    /\ \A i \in DOMAIN http_log : http_log[i].timeout
    /\ call_state # "blocked"

\* --- _run_async
\* C24: for a coroutine that returns, _run_async returns its result in both
\* modes and never raises; without a running loop the coroutine runs inline
\* in the calling thread, with one it runs only on the new loop of thread t,
\* which has ended before _run_async returns; and as long as the call has
\* not ended some step of it can be taken.
C24_ResultInBothModes ==
    /\ coro.ends = "return" =>
          /\ caller_pc # "raised"
          /\ caller_pc = "returned" => returned_value = coro.result
    /\ ran_on \subseteq (IF running_loop THEN {"new_event_loop"} ELSE {"asyncio.run"})
    /\ caller_pc = "returned" /\ running_loop => thread_pc = "ended"
    /\ caller_pc \in {"get_running_loop", "asyncio.run", "inline", "start", "join"}
          => ENABLED NextAsync

C24_Witness ==
    /\ running_loop /\ caller_pc = "returned" /\ coro.awaits > 0
    /\ coro.ends = "return" /\ returned_value = "v1" /\ thread_pc = "ended"

\* --- upload_thing: presign
IsPresign(r) == r.verb = "presign"
PresignsOf(v) == {i \in DOMAIN ut_requests :
                     IsPresign(ut_requests[i]) /\ ut_requests[i].to[1] = v}

\* C25: the first request of upload_many is one presign request to v7 for
\* the whole batch; a presign request to v6 follows only a 404 from v7;
\* nothing else is sent before the presign has succeeded, and nothing at all
\* when its last answer is not a success; every file request goes, by PUT to
\* the uploadUrl or by multipart POST to the url, to the entry the presign
\* response holds at the file's position.
C25_PresignThenAssignedTargets ==
    /\ ut_requests # <<>> =>
          /\ ut_requests[1].verb = "presign" /\ ut_requests[1].to = <<"v7", ut_files>>
    /\ Cardinality(PresignsOf("v7")) <= 1 /\ Cardinality(PresignsOf("v6")) <= 1
    /\ \A i \in PresignsOf("v6") :
          /\ i = 2 /\ ut_requests[1].index = 404
          /\ ut_requests[i].to = <<"v6", ut_files>>
    /\ \A i \in DOMAIN ut_requests :
          ~IsPresign(ut_requests[i]) =>
             /\ \A j \in DOMAIN ut_requests : IsPresign(ut_requests[j]) => j < i
             /\ \E j \in DOMAIN ut_requests :
                   /\ IsPresign(ut_requests[j]) /\ ut_requests[j].index = 200
                   /\ \A k \in DOMAIN ut_requests : IsPresign(ut_requests[k]) => k <= j
             /\ LET r == ut_requests[i]
                IN  /\ r.index < Len(ut_presigned)
                    /\ \/ /\ r.verb = "PUT"
                          /\ r.to = ut_presigned[r.index + 1].uploadUrl
                       \/ /\ r.verb = "POST"
                          /\ r.to = ut_presigned[r.index + 1].url
                          /\ ut_presigned[r.index + 1].fields
                    /\ r.to[2] = r.index + 1
    /\ ut_pc \in {"item", "returned"} => ut_status = 200
    /\ ut_status \notin {0, 200} /\ ut_pc # "presign_v6" =>
          /\ ut_pc \in {"raise_for_status", "raised"}
          /\ \A i \in DOMAIN ut_requests : IsPresign(ut_requests[i])

C25_Witness ==
    /\ ut_pc = "returned" /\ ut_files = 2
    /\ PresignsOf("v6") # {}
    /\ \E i, j \in DOMAIN ut_requests :
          /\ ut_requests[i].verb = "PUT" /\ ut_requests[i].index = 0
          /\ ut_requests[j].verb = "POST" /\ ut_requests[j].index = 1

\* --- supabase_storage
RlsWords == {"row-level security", "Row-Level Security"}
LastAnswer == sb_answers[Len(sb_answers)]
RejectedByRls ==
    /\ sb_answers # <<>> /\ LastAnswer.class = "StorageApiError"
    /\ \E i \in DOMAIN LastAnswer.msg : LastAnswer.msg[i] \in RlsWords
Unchanged(e) == [class |-> e.class, msg |-> e.msg, hint |-> "", cause |-> <<>>]

\* The batch stops at the item whose request failed: that request is the
\* last one sent and belongs to the item at sb_idx.
StopsAtItem ==
    /\ Len(sb_answers) = sb_idx + 1
    /\ \A i \in 1 .. sb_idx : sb_answers[i].class = "ok"

\* C26 as stated: a backend error that mentions row-level security is raised
\* as PermissionError with a hint, every other backend error is raised
\* unchanged, and the batch stops at that item.
C26_RlsErrorBecomesPermissionError ==
    sb_pc = "raised" =>
        /\ StopsAtItem
        /\ IF RejectedByRls
           THEN sb_raised.class = "PermissionError" /\ sb_raised.hint # ""
           ELSE sb_raised = Unchanged(LastAnswer)

\* C26, amended: the error becomes PermissionError only when the key's JWT
\* role is not service_role; under a service_role key it is raised
\* unchanged like every other error.
C26_RlsErrorBecomesPermissionErrorUnlessServiceRole ==
    sb_pc = "raised" =>
        /\ StopsAtItem
        /\ IF RejectedByRls /\ role # "service_role"
           THEN /\ sb_raised.class = "PermissionError" /\ sb_raised.hint = Hint(sb_method)
                /\ sb_raised.cause = <<LastAnswer>>
           ELSE sb_raised = Unchanged(LastAnswer)

C26_Witness ==
    /\ sb_pc = "raised" /\ sb_method = "upload_many" /\ sb_idx = 1 /\ role = "anon"
    /\ RejectedByRls /\ LastAnswer.msg[2] = "Row-Level Security"
    /\ sb_raised.class = "PermissionError"

\* ------------------------------------------------------------ filenames
HasDotDot(s) == \E i \in 1..(Len(s) - 1) : s[i] = "." /\ s[i + 1] = "."
StartsWith(s, prefix) == Len(prefix) <= Len(s) /\ SubSeq(s, 1, Len(prefix)) = prefix
EndsWith(s, suffix) ==
    Len(suffix) <= Len(s) /\ SubSeq(s, Len(s) - Len(suffix) + 1, Len(s)) = suffix
Blank(s) == \A i \in 1..Len(s) : s[i] = " "

\* C29: sanitize_filename returns None for an empty, whitespace-only, "." or
\* ".." input, and otherwise None or a name of at most 255 characters without
\* "/", backslash, NUL or ".."; "../../../etc/passwd" gives "passwd" and
\* "..\windows\system32" gives "system32".
C29_SanitizedNameIsSafe ==
    names_pc # "input" =>
        /\ (Blank(raw_filename) \/ raw_filename \in {<<".">>, <<".", ".">>})
              => sanitized_filename.none
        /\ ~sanitized_filename.none =>
              /\ Len(sanitized_filename.name) <= 255
              /\ \A i \in 1..Len(sanitized_filename.name) :
                    sanitized_filename.name[i] \notin {"/", "\\", "NUL"}
              /\ ~HasDotDot(sanitized_filename.name)
        /\ raw_filename = <<".", ".", "/", ".", ".", "/", ".", ".", "/", "etc", "/", "passwd">>
              => sanitized_filename = [none |-> FALSE, name |-> <<"passwd">>]
        /\ raw_filename = <<".", ".", "\\", "windows", "\\", "system32">>
              => sanitized_filename = [none |-> FALSE, name |-> <<"system32">>]

\* C27: the output filename comes from the sanitized `filename` when there is
\* one, else from `custom_filename` when it is usable, else it is the generated
\* '<base>-<uuid>' name; a whitespace-only `filename` counts as no filename; a
\* `filename` without extension gets the extension of the output format.
C27_FilenamePriority ==
    names_pc = "saved" =>
        LET custom == Custom(save_node, custom_filename, platform)
            dotfmt == <<".", Format(save_node)>>
            split == Splitext(sanitized_filename.name)
        IN  /\ (raw_filename # <<>> /\ Blank(raw_filename)) => sanitized_filename.none
            /\ \A k \in 1..Len(filenames) :
                  IF ~sanitized_filename.none
                  THEN /\ StartsWith(filenames[k], split.root)
                       /\ EndsWith(filenames[k], IF split.ext = <<>> THEN dotfmt ELSE split.ext)
                  ELSE IF ~custom.none
                  THEN /\ StartsWith(filenames[k], custom.name)
                       /\ EndsWith(filenames[k], dotfmt)
                  ELSE /\ StartsWith(filenames[k], base_filename \o <<"-">>)
                       /\ EndsWith(filenames[k], dotfmt)
\* Both inputs given, the filename without extension: "priority_filename.wav".
C27_Witness ==
    /\ names_pc = "saved" /\ save_node = "audio"
    /\ raw_filename = <<"priority_filename">> /\ custom_filename = <<"c">>
    /\ filenames = << <<"priority_filename", ".", "wav">> >>

\* i written as exactly three decimal digits, for i below 1000.
ThreeDigits(i) == <<ToString(i \div 100), ToString((i \div 10) % 10), ToString(i % 10)>>

\* C28: with an explicit filename, a batch of N > 1 outputs returns exactly N
\* filenames in batch order, the i-th (from 0) being <name>_<i in three
\* digits><ext>, pairwise distinct; for N = 1 the filename has no suffix.
C28_BatchFilenames ==
    (names_pc = "saved" /\ ~sanitized_filename.none) =>
        LET split == Splitext(sanitized_filename.name)
            ext == IF split.ext = <<>> THEN <<".", Format(save_node)>> ELSE split.ext
        IN  /\ Len(filenames) = batch_total
            /\ batch_total > 1 =>
                  /\ \A k \in 1..batch_total :
                        filenames[k] = split.root \o <<"_">> \o ThreeDigits(k - 1) \o ext
                  /\ \A j, k \in 1..batch_total : j # k => filenames[j] # filenames[k]
            /\ batch_total = 1 => filenames[1] = split.root \o ext
\* The batch of three of the test: batch_audio_000.wav .. batch_audio_002.wav.
C28_Witness ==
    /\ names_pc = "saved" /\ save_node = "audio" /\ batch_total = 3
    /\ raw_filename = <<"batch_audio", ".", "wav">>
    /\ filenames = << <<"batch_audio", "_", "0", "0", "0", ".", "wav">>,
                      <<"batch_audio", "_", "0", "0", "1", ".", "wav">>,
                      <<"batch_audio", "_", "0", "0", "2", ".", "wav">> >>

\* ------------------------------------------------------------ node fallback
IsRequest(e) == e.kind \notin {"progress_callback", "byte_callback"}

UtSent ==
    {ut_requests[n].index : n \in {m \in 1 .. Len(ut_requests) : ut_requests[m].verb \in {"PUT", "POST"}}}

\* C31: when upload_thing upload / upload_many returns, every item it
\* reports a result for (one per item) had its bytes sent to a presigned
\* target; an item without a usable target makes the call fail.
C31_EveryResultWasSent ==
    ut_pc = "returned" => \A i \in 0 .. (ut_files - 1) : i \in UtSent

\* ------------------------------------------------------------ save nodes
IsClosing(e) == e.phase = "complete" \/ (e.phase = "error" /\ e.where = "cloud")
LastStatus == status_events[Len(status_events)]

\* C32: a save node that has returned sent "start" first and only once, and
\* closed the cloud phase with exactly one event, its last: "error" when the
\* upload failed, otherwise "complete", which carries count_cloud = the
\* number of cloud results returned and count_local = the number of files
\* written locally.
C32_StartFirstOneClosingEvent ==
    sn_pc = "returned" =>
        /\ status_events # <<>>
        /\ \A n \in 1 .. Len(status_events) : (status_events[n].phase = "start") <=> (n = 1)
        /\ \A n \in 1 .. Len(status_events) :
              IsClosing(status_events[n]) <=> (n = Len(status_events))
        /\ (LastStatus.phase = "error") <=> (upload_outcome = "failed")
        /\ LastStatus.phase = "complete" =>
              /\ upload_outcome = "ok" \/ ~save_to_cloud \/ cloud_items = 0
              /\ LastStatus.count_cloud = returned_cloud
              /\ LastStatus.count_local = written
\* An image batch of two, saved locally with one write failing, uploaded.
C32_Witness ==
    /\ sn_pc = "returned" /\ sn_node = "image" /\ sn_total = 2
    /\ save_to_cloud /\ save_to_local /\ upload_outcome = "ok"
    /\ written = 1 /\ returned_cloud = 2
    /\ LastStatus = StatusEvent("complete", "cloud", 1, 2)
    /\ \E n \in 1 .. Len(status_events) :
          status_events[n].phase = "error" /\ status_events[n].where = "local"

\* C38 as claimed: a video node that has returned with save_to_local off has
\* left no rendered file at out_path; with save_to_local on the file is there
\* and listed in the UI results.
C38_NoFileLeftWithoutLocal ==
    (sn_pc = "returned" /\ sn_node \in VideoNodes) =>
        IF save_to_local THEN out_file = "present" /\ ui_results = 1
        ELSE out_file = "absent"

\* C38, amended: with save_to_local off the rendered file is removed after
\* the cloud phase, whether the upload succeeded or failed, unless the
\* removal itself fails, which the node ignores; with save_to_local on the
\* file is kept and listed in the UI results.
C38_FileRemovedUnlessRemovalFails ==
    (sn_pc = "returned" /\ sn_node \in VideoNodes) =>
        IF save_to_local THEN out_file = "present" /\ ui_results = 1
        ELSE out_file \in {"absent", "left"} /\ ui_results = 0
\* The upload failed, save_to_local is off, and the file is gone.
C38_Witness ==
    /\ sn_pc = "returned" /\ sn_node = "video" /\ ~save_to_local /\ save_to_cloud
    /\ upload_outcome = "failed" /\ out_file = "absent" /\ ui_results = 0

\* ------------------------------------------------ token cache: two writers
\* C33: once _write_cached_tokens has completed for app A and for app B,
\* however their steps interleaved, the cache file holds the entries of both.
C33_NoEntryLost ==
    (\A w \in Writers : writer_pc[w] = "done") =>
        /\ shared_cache.valid
        /\ Writers \subseteq shared_cache.apps

\* ------------------------------------------------- node: byte progress
RECURSIVE SumSeq(_)
SumSeq(s) == IF s = <<>> THEN 0 ELSE s[1] + SumSeq(Tail(s))

\* total_bytes = sum(len(it["content"]) for it in cloud_items)
total_bytes == SumSeq(items)

\* _bytes_cb: sent_bytes["n"] += int(info.get("delta") or 0); the new value
\* is the event's bytes_done.
BytesDoneFromSent(done, info) == done + info.sent
_bytes_cb(done, info) == done + info.len

\* The byte callbacks the adapter has made in this invocation: sent_bytes is
\* created once, before the first upload_many call.
NodeCallbacks ==
    SelectSeq(first_attempt.events \o events, LAMBDA e : e.kind = "byte_callback")

\* bytes_done of the cloud progress events, in the order they are emitted.
RECURSIVE Progress(_, _)
Progress(done, cbs) ==
    IF cbs = <<>> THEN <<>>
    ELSE <<_bytes_cb(done, cbs[1])>> \o Progress(_bytes_cb(done, cbs[1]), Tail(cbs))

bytes_done == Progress(0, NodeCallbacks)

\* C34 as stated: in every cloud progress event of one save-node invocation
\* bytes_done is at most bytes_total, and bytes_done never decreases from
\* one event to the next.
C34_BytesDoneMonotone ==
    (caller = "node" /\ op = "upload_many") =>
        \A k \in 1 .. Len(bytes_done) :
           /\ bytes_done[k] <= total_bytes
           /\ k > 1 => bytes_done[k - 1] <= bytes_done[k]

\* C34, amended: bytes_done stays between 0 and bytes_total in every cloud
\* progress event; it decreases from one event to the next only with the
\* S3-Compatible adapter, by the bytes a repeated request takes back (the
\* adapter's own "sent" is then 0 again).
C34_BytesDoneBounded ==
    (caller = "node" /\ op = "upload_many") =>
        \A k \in 1 .. Len(bytes_done) :
           /\ 0 <= bytes_done[k] /\ bytes_done[k] <= total_bytes
           /\ (IF k = 1 THEN 0 ELSE bytes_done[k - 1]) > bytes_done[k] =>
                 /\ module = "s3_compatible"
                 /\ NodeCallbacks[k].len < 0
                 /\ NodeCallbacks[k].sent = 0
\* A node's batch of two items went through Dropbox sessions: four events,
\* the last one with bytes_done = bytes_total.
C34_Witness ==
    /\ caller = "node" /\ op = "upload_many" /\ module = "dropbox_client"
    /\ pc = "done" /\ Len(items) = 2
    /\ Len(bytes_done) >= 3
    /\ bytes_done[Len(bytes_done)] = total_bytes
    /\ bytes_done[1] < bytes_done[2]

\* ------------------------------------------ drive adapters: token exchanges
\* The refresh-token grants one call sent to the token endpoint.
RefreshExchanges ==
    {n \in 1 .. Len(token_requests) : token_requests[n] = "refresh_token"}

\* C35: one call of the Google Drive or OneDrive adapter with a
\* refresh-token credential exchanges the refresh token at the provider's
\* token endpoint at most once.
C35_AtMostOneRefreshExchange ==
    service \in {"gdrive", "onedrive"} => Cardinality(RefreshExchanges) <= 1

\* --------------------------------------------------------- ftp: download
\* C36: FTP download returns exactly the bytes of the remote file that was
\* retrieved; bytes delivered by a candidate that then failed are neither
\* left in the returned content nor counted in the byte-progress "sent".
C36_ReturnsRetrievedFileOnly ==
    retr_pc = "returned" =>
        /\ bio = FileBlocks(retrieved, remote_files[retrieved])
        /\ retr_byte_cb => retr_sent = remote_files[retrieved]

\* ------------------------------------------------- _run_async: exceptions
\* C37: if the coroutine given to _run_async raises, the exception reaches
\* the caller in both execution modes; the auxiliary-thread mode never turns
\* a failed coroutine into a normal return of None.
C37_CoroutineErrorReachesCaller ==
    (coro.ends = "raise" /\ caller_pc \in {"returned", "raised"}) => caller_pc = "raised"

====
